---- MODULE Spec2Model ----
(***************************************************************************)
(* Model of the custody resolver of family-schedulekit                     *)
(* (src/src/family_schedulekit/resolver.py, models.py).                    *)
(*                                                                         *)
(* Representation.  A Python str is a sequence of one-character strings,   *)
(* so that formatting and concatenation are computed and not assumed.      *)
(* Python's None is the sequence None below, which is no str (its only     *)
(* element is not a character).  A date is its proleptic Gregorian ordinal *)
(* (datetime.date.toordinal).  A value of a union type carries a "kind"    *)
(* field, which is what isinstance() reads.                                *)
(***************************************************************************)
EXTENDS Integers, Sequences, FiniteSets, TLC

VARIABLES
    cfg,     \* the configuration the call reads
    op,      \* the operation called
    args,    \* its arguments
    result,  \* what it returned, once pc = "done"
    trace,   \* what it did on the way: nested calls made, return statement taken
    pc,      \* "call" before the call, "done" after it
    files,   \* the file system: what each path that matters holds
    heap     \* the dicts that calls built and handed out, by address

vars == <<cfg, op, args, result, trace, pc, files, heap>>

---------------------------------------------------------------------------
(* Text *)

None == <<"None">>

DigitChars == <<"0", "1", "2", "3", "4", "5", "6", "7", "8", "9">>

Digit(n) == <<DigitChars[n + 1]>>

\* f"{n:02d}" for 0 <= n <= 99
Pad2(n) == Digit(n \div 10) \o Digit(n % 10)

\* f"{n:04d}" for 0 <= n <= 9999
Pad4(n) == Pad2(n \div 100) \o Pad2(n % 100)

\* str(n) for 0 <= n <= 99
Str(n) == IF n < 10 THEN Digit(n) ELSE Pad2(n)

GUARDIAN_1 == <<"g", "u", "a", "r", "d", "i", "a", "n", "_", "1">>
GUARDIAN_2 == <<"g", "u", "a", "r", "d", "i", "a", "n", "_", "2">>

Guardian == {GUARDIAN_1, GUARDIAN_2}

SCHOOL == <<"s", "c", "h", "o", "o", "l">>
AFTER_SCHOOL == <<"a", "f", "t", "e", "r", "_">> \o SCHOOL
UNDERSCORE_TO == <<"_", "t", "o", "_">>
ISO8601 == <<"I", "S", "O", "8", "6", "0", "1">>

\* An exception leaving a call
Raised(e) == [raised |-> TRUE, error |-> e]

\* A value returned by a call that did not raise
Returned(v) == [raised |-> FALSE, value |-> v]

---------------------------------------------------------------------------
(* Calendar: datetime.date as used by resolver.py *)

Weekday == <<"monday", "tuesday", "wednesday", "thursday", "friday", "saturday", "sunday">>

\* Weekday.from_python_weekday(i) = tuple(cls)[i]
from_python_weekday(i) == Weekday[i + 1]

is_leap(y) == y % 4 = 0 /\ (y % 100 # 0 \/ y % 400 = 0)

days_in_month(y, m) ==
    IF m = 2 THEN (IF is_leap(y) THEN 29 ELSE 28)
    ELSE IF m \in {4, 6, 9, 11} THEN 30 ELSE 31

days_before_year(y) ==
    (y - 1) * 365 + ((y - 1) \div 4) - ((y - 1) \div 100) + ((y - 1) \div 400)

RECURSIVE days_before_month(_, _)
days_before_month(y, m) ==
    IF m = 1 THEN 0 ELSE days_before_month(y, m - 1) + days_in_month(y, m - 1)

\* date(y, m, d).toordinal()
ymd2ord(y, m, d) == days_before_year(y) + days_before_month(y, m) + d

\* The calendar years the modelled dates lie in.
Years == 2024..2028

year_of(n) == CHOOSE y \in Years : days_before_year(y) < n /\ n <= days_before_year(y + 1)

month_of(n) ==
    LET y == year_of(n)
        rest == n - days_before_year(y)
    IN  CHOOSE m \in 1..12 :
            /\ days_before_month(y, m) < rest
            /\ rest <= days_before_month(y, m) + days_in_month(y, m)

day_of(n) ==
    LET y == year_of(n)
    IN  n - days_before_year(y) - days_before_month(y, month_of(n))

\* dt.weekday(): Monday is 0
weekday(n) == (n + 6) % 7

\* dt.isoformat(): "YYYY-MM-DD"
isoformat(n) ==
    Pad4(year_of(n)) \o <<"-">> \o Pad2(month_of(n)) \o <<"-">> \o Pad2(day_of(n))

\* The Monday of ISO week 1 of year y: the week holding the year's first Thursday.
isoweek1monday(y) ==
    LET firstday == ymd2ord(y, 1, 1)
        firstweekday == (firstday + 6) % 7
        week1monday == firstday - firstweekday
    IN  IF firstweekday > 3 THEN week1monday + 7 ELSE week1monday

\* Floor division, as Python's divmod(a, 7)[0] for any sign of a.
FloorDiv7(a) == IF a >= 0 THEN a \div 7 ELSE -((6 - a) \div 7)

\* Faulty variant: the last days of December are never given to week 1 of the
\* next ISO year.
iso_week_no_rollover(n) ==
    LET y == year_of(n)
        week == FloorDiv7(n - isoweek1monday(y))
    IN  IF week < 0 THEN FloorDiv7(n - isoweek1monday(y - 1)) + 1
        ELSE week + 1

\* iso_week(dt) = dt.isocalendar().week
iso_week(n) ==
    LET y == year_of(n)
        week == FloorDiv7(n - isoweek1monday(y))
    IN  IF week < 0 THEN FloorDiv7(n - isoweek1monday(y - 1)) + 1
        ELSE IF week >= 52 /\ n >= isoweek1monday(y + 1) THEN 1
        ELSE week + 1

\* The character of k at position p, and no character past its end
At(k, p) == IF p <= Len(k) THEN k[p] ELSE ""

IsDigit(ch) == \E i \in 1..10 : DigitChars[i] = ch

NonZeroDigits == {"1", "2", "3", "4", "5", "6", "7", "8", "9"}

\* int() of the n characters of k from p on, a leading space skipped
RECURSIVE IntAt(_, _, _)
IntAt(k, p, n) ==
    IF n = 0 THEN 0
    ELSE IF k[p + n - 1] = " " THEN 0
    ELSE IntAt(k, p, n - 1) * 10 + (CHOOSE i \in 0..9 : DigitChars[i + 1] = k[p + n - 1])

\* How many characters of k the directive %m takes at p: 1[0-2]|0[1-9]|[1-9]
MonthLen(k, p) ==
    IF At(k, p) = "1" /\ At(k, p + 1) \in {"0", "1", "2"} THEN 2
    ELSE IF At(k, p) = "0" /\ At(k, p + 1) \in NonZeroDigits THEN 2
    ELSE IF At(k, p) \in NonZeroDigits THEN 1
    ELSE 0

\* How many characters of k the directive %d takes at p:
\* 3[0-1]|[1-2]\d|0[1-9]|[1-9]| [1-9]
DayLen(k, p) ==
    IF At(k, p) = "3" /\ At(k, p + 1) \in {"0", "1"} THEN 2
    ELSE IF At(k, p) \in {"1", "2"} /\ IsDigit(At(k, p + 1)) THEN 2
    ELSE IF At(k, p) = "0" /\ At(k, p + 1) \in NonZeroDigits THEN 2
    ELSE IF At(k, p) \in NonZeroDigits THEN 1
    ELSE IF At(k, p) = " " /\ At(k, p + 1) \in NonZeroDigits THEN 2
    ELSE 0

\* datetime.strptime(k, "%Y-%m-%d"): the date, or ValueError when k does not
\* match the format, when characters remain after the day, or when the
\* month has no such day
strptime(k) ==
    LET month_len == MonthLen(k, 6)
        day_at == 6 + month_len + 1
        day_len == DayLen(k, day_at)
        year == IntAt(k, 1, 4)
        month == IntAt(k, 6, month_len)
        day == IntAt(k, day_at, day_len)
    IN  IF ~ /\ \A i \in 1..4 : IsDigit(At(k, i))
             /\ At(k, 5) = "-"
             /\ month_len > 0
             /\ At(k, 6 + month_len) = "-"
             /\ day_len > 0
        THEN Raised("ValueError")
        ELSE IF Len(k) # day_at + day_len - 1 THEN Raised("ValueError")
        ELSE IF year < 1 \/ day > days_in_month(year, month) THEN Raised("ValueError")
        ELSE Returned(ymd2ord(year, month, day))

---------------------------------------------------------------------------
(* models.py *)

\* Faulty variant: the hour modulo 12 is shown as it is, midnight and noon as 0.
HandoffTime_format_zero_hour(t) ==
    LET hour_12 == t.hour % 12
        am_pm == IF t.hour < 12 THEN <<"A", "M">> ELSE <<"P", "M">>
        time_str ==
            IF t.use_24h THEN Pad2(t.hour) \o <<":">> \o Pad2(t.minute)
            ELSE IF t.minute = 0 THEN Str(hour_12) \o am_pm
            ELSE Str(hour_12) \o <<":">> \o Pad2(t.minute) \o am_pm
    IN  IF t.by THEN <<"b", "y", " ">> \o time_str ELSE time_str

\* HandoffTime.format()
HandoffTime_format(t) ==
    LET hour_12 == IF t.hour % 12 = 0 THEN 12 ELSE t.hour % 12
        am_pm == IF t.hour < 12 THEN <<"A", "M">> ELSE <<"P", "M">>
        time_str ==
            IF t.use_24h THEN Pad2(t.hour) \o <<":">> \o Pad2(t.minute)
            ELSE IF t.minute = 0 THEN Str(hour_12) \o am_pm
            ELSE Str(hour_12) \o <<":">> \o Pad2(t.minute) \o am_pm
    IN  IF t.by THEN <<"b", "y", " ">> \o time_str ELSE time_str

\* A bare Guardian in a slot typed Guardian | WeekdayRule
Bare(g) == [kind |-> "Guardian", guardian |-> g]

\* WeekdayRule(modulo_rules, otherwise)
WeekdayRule(rules, otherwise) ==
    [kind |-> "WeekdayRule", modulo_rules |-> rules, otherwise |-> otherwise]

\* CalendarWeekModuloRule(modulo, remainder, guardian)
CalendarWeekModuloRule(m, r, g) == [modulo |-> m, remainder |-> r, guardian |-> g]

\* Field(ge=2) on modulo, Field(ge=0) on remainder, and _validate_remainder
ValidModuloRule(r) == r.modulo >= 2 /\ r.remainder >= 0 /\ r.remainder < r.modulo

\* Faulty variant: _validate_remainder compares with > and lets remainder = modulo pass.
CalendarWeekModuloRule_errors_off_by_one(raw) ==
    LET modulo_valid == raw.modulo >= 2
        remainder_valid ==
            raw.remainder >= 0 /\ ~(modulo_valid /\ raw.remainder > raw.modulo)
    IN  {f \in {"modulo", "remainder"} :
            \/ f = "modulo" /\ ~modulo_valid
            \/ f = "remainder" /\ ~remainder_valid}

\* The fields of CalendarWeekModuloRule built from raw data whose validation fails.  modulo
\* is validated first; _validate_remainder runs when remainder passed ge=0
\* and finds modulo in info.data only when modulo was valid.
CalendarWeekModuloRule_errors(raw) ==
    LET modulo_valid == raw.modulo >= 2
        remainder_valid ==
            raw.remainder >= 0 /\ ~(modulo_valid /\ raw.remainder >= raw.modulo)
    IN  {f \in {"modulo", "remainder"} :
            \/ f = "modulo" /\ ~modulo_valid
            \/ f = "remainder" /\ ~remainder_valid}

\* The validation errors of a value of a slot typed Guardian | WeekdayRule:
\* the places of the failing fields of its modulo rules
WeekdayRule_errors(a) ==
    IF a.kind = "Guardian" THEN {}
    ELSE {<<i, f>> : i \in 1..Len(a.modulo_rules), f \in {"modulo", "remainder"}}
             \cap UNION {{<<i, f>> : f \in CalendarWeekModuloRule_errors(a.modulo_rules[i])} :
                             i \in 1..Len(a.modulo_rules)}

\* ScheduleConfigModel._validate_holidays(v)
validate_holidays(v) ==
    IF \E k \in DOMAIN v : strptime(k).raised THEN Raised("ValueError") ELSE Returned(v)

\* The validator of the swaps field: every key must parse as a date
validate_swaps(v) ==
    IF \E k \in DOMAIN v : strptime(k).raised THEN Raised("ValueError") ELSE Returned(v)

---------------------------------------------------------------------------
(* resolver.py *)

\* Faulty variant: the location of a WeekdayHandoffs object is not read.
get_weekday_handoff_literal(c) == SCHOOL

\* _get_weekday_handoff(cfg)
get_weekday_handoff(c) ==
    IF c.handoff.weekdays.kind = "str" THEN c.handoff.weekdays.value
    ELSE c.handoff.weekdays.location

\* The index of the first modulo rule matching cw, 0 when none does:
\* the for loop of resolve_weekday_rule.
RECURSIVE FirstMatch(_, _, _)
FirstMatch(rules, cw, i) ==
    IF i > Len(rules) THEN 0
    ELSE IF cw % rules[i].modulo = rules[i].remainder THEN i
    ELSE FirstMatch(rules, cw, i + 1)

\* The return statement resolve_weekday_rule leaves by
resolve_weekday_rule_return(rule, cw) ==
    IF rule.kind = "Guardian" THEN "rule"
    ELSE IF FirstMatch(rule.modulo_rules, cw, 1) # 0 THEN "modulo_rule.guardian"
    ELSE "rule.otherwise"

\* The index of the last modulo rule matching cw, 0 when none does
RECURSIVE LastMatch(_, _, _)
LastMatch(rules, cw, i) ==
    IF i < 1 THEN 0
    ELSE IF cw % rules[i].modulo = rules[i].remainder THEN i
    ELSE LastMatch(rules, cw, i - 1)

\* Faulty variant: the loop does not stop at the first match, the last one wins.
resolve_weekday_rule_last_match(rule, cw) ==
    IF rule.kind = "Guardian" THEN rule.guardian
    ELSE LET i == LastMatch(rule.modulo_rules, cw, Len(rule.modulo_rules))
         IN  IF i # 0 THEN rule.modulo_rules[i].guardian ELSE rule.otherwise

\* Faulty variant: after the loop the loop variable is returned, so a week no
\* rule matches gets the guardian of the last rule of a non-empty list.
resolve_weekday_rule_loop_variable(rule, cw) ==
    IF rule.kind = "Guardian" THEN rule.guardian
    ELSE LET i == FirstMatch(rule.modulo_rules, cw, 1)
         IN  IF i # 0 THEN rule.modulo_rules[i].guardian
             ELSE IF Len(rule.modulo_rules) > 0
             THEN rule.modulo_rules[Len(rule.modulo_rules)].guardian
             ELSE rule.otherwise

\* Faulty variant: the fallback to rule.otherwise is missing, so a week that
\* no modulo rule matches yields None.
resolve_weekday_rule_no_fallback(rule, cw) ==
    IF rule.kind = "Guardian" THEN rule.guardian
    ELSE LET i == FirstMatch(rule.modulo_rules, cw, 1)
         IN  IF i # 0 THEN rule.modulo_rules[i].guardian ELSE None

\* resolve_weekday_rule(rule, cw)
resolve_weekday_rule(rule, cw) ==
    IF rule.kind = "Guardian" THEN rule.guardian
    ELSE LET i == FirstMatch(rule.modulo_rules, cw, 1)
         IN  IF i # 0 THEN rule.modulo_rules[i].guardian ELSE rule.otherwise

\* The dict resolve_for_date returns
Resolution(iso_date, cw, guardian, handoff, is_swap, swap_note) ==
    [raised |-> FALSE, date |-> iso_date, calendar_week |-> cw, guardian |-> guardian,
     handoff |-> handoff, is_swap |-> is_swap, swap_note |-> swap_note]

\* Faulty variant: the holiday entry is tried before the swap entry.
OverrideResolution_holiday_first(c, iso_date, cw) ==
    IF iso_date \in DOMAIN c.holidays
    THEN Resolution(iso_date, cw, c.holidays[iso_date], None, FALSE, None)
    ELSE LET swap == c.swaps[iso_date]
         IN  Resolution(iso_date, cw, swap.guardian, swap.handoff, TRUE, swap.note)

\* Faulty variant: a holiday entry is reported as a swap.
OverrideResolution_holiday_is_swap(c, iso_date, cw) ==
    IF iso_date \in DOMAIN c.swaps
    THEN LET swap == c.swaps[iso_date]
         IN  Resolution(iso_date, cw, swap.guardian, swap.handoff, TRUE, swap.note)
    ELSE Resolution(iso_date, cw, c.holidays[iso_date], None, TRUE, None)

\* Faulty variant: a swap without a handoff gets the weekday default.
OverrideResolution_default_handoff(c, iso_date, cw) ==
    IF iso_date \in DOMAIN c.swaps
    THEN LET swap == c.swaps[iso_date]
         IN  Resolution(iso_date, cw, swap.guardian,
                        IF swap.handoff = None THEN get_weekday_handoff(c) ELSE swap.handoff,
                        TRUE, swap.note)
    ELSE Resolution(iso_date, cw, c.holidays[iso_date], None, FALSE, None)

\* Faulty variant: a holiday keeps the weekday handoff.
OverrideResolution_holiday_handoff(c, iso_date, cw) ==
    IF iso_date \in DOMAIN c.swaps
    THEN LET swap == c.swaps[iso_date]
         IN  Resolution(iso_date, cw, swap.guardian, swap.handoff, TRUE, swap.note)
    ELSE Resolution(iso_date, cw, c.holidays[iso_date], get_weekday_handoff(c), FALSE, None)

\* The early returns of resolve_for_date: a swap entry, else a holiday entry
OverrideResolution(c, iso_date, cw) ==
    IF iso_date \in DOMAIN c.swaps
    THEN LET swap == c.swaps[iso_date]
         IN  Resolution(iso_date, cw, swap.guardian, swap.handoff, TRUE, swap.note)
    ELSE Resolution(iso_date, cw, c.holidays[iso_date], None, FALSE, None)

\* Faulty variant: the parity test is inverted.
WeekendGuardian_parity_inverted(c, day, cw) ==
    IF cw % 2 = 0 THEN c.rules.weekends.odd_weeks[day]
    ELSE resolve_weekday_rule(c.rules.weekends.even_weeks[day], cw)

\* Faulty variant: week 53 is taken for an even week, to alternate with week 1.
WeekendGuardian_week_53_even(c, day, cw) ==
    IF cw % 2 = 1 /\ cw # 53 THEN c.rules.weekends.odd_weeks[day]
    ELSE resolve_weekday_rule(c.rules.weekends.even_weeks[day], cw)

\* guardian of a Friday, Saturday or Sunday: the weekend cases of the match
WeekendGuardian(c, day, cw) ==
    IF cw % 2 = 1 THEN c.rules.weekends.odd_weeks[day]
    ELSE resolve_weekday_rule(c.rules.weekends.even_weeks[day], cw)

\* guardian of the match statement
DayGuardian(c, day, cw) ==
    IF day \in {"monday", "tuesday", "wednesday", "thursday"}
    THEN c.rules.weekdays[day]
    ELSE WeekendGuardian(c, day, cw)

\* Faulty variant: a Friday gets "after_school" without looking at Thursday.
DayHandoff_friday_always(c, day, guardian, yesterday_guardian) ==
    IF day \in {"monday", "tuesday", "wednesday", "thursday"}
    THEN get_weekday_handoff(c)
    ELSE IF day = "friday" THEN AFTER_SCHOOL
    ELSE None

\* Faulty variant: the comparison with Thursday's guardian is inverted.
DayHandoff_friday_inverted(c, day, guardian, yesterday_guardian) ==
    IF day \in {"monday", "tuesday", "wednesday", "thursday"}
    THEN get_weekday_handoff(c)
    ELSE IF day = "friday" /\ yesterday_guardian = guardian THEN AFTER_SCHOOL
    ELSE None

\* handoff of the match statement; yesterday_guardian is read on Fridays only
DayHandoff(c, day, guardian, yesterday_guardian) ==
    IF day \in {"monday", "tuesday", "wednesday", "thursday"}
    THEN get_weekday_handoff(c)
    ELSE IF day = "friday" /\ yesterday_guardian # guardian THEN AFTER_SCHOOL
    ELSE None

\* Faulty variant: from_guardian is not compared with to_guardian.
SpecialStarts_same_guardian(c, day, guardian, check_handoff) ==
    /\ check_handoff
    /\ day \in DOMAIN c.handoff.special_handoffs
    /\ guardian = c.handoff.special_handoffs[day].from_guardian

\* Faulty variant: the day's guardian is compared with to_guardian.
SpecialStarts_to_guardian(c, day, guardian, check_handoff) ==
    /\ check_handoff
    /\ day \in DOMAIN c.handoff.special_handoffs
    /\ guardian = c.handoff.special_handoffs[day].to_guardian
    /\ c.handoff.special_handoffs[day].from_guardian
           # c.handoff.special_handoffs[day].to_guardian

\* The test that sends resolve_for_date to the next day
SpecialStarts(c, day, guardian, check_handoff) ==
    /\ check_handoff
    /\ day \in DOMAIN c.handoff.special_handoffs
    /\ guardian = c.handoff.special_handoffs[day].from_guardian
    /\ c.handoff.special_handoffs[day].from_guardian
           # c.handoff.special_handoffs[day].to_guardian

\* The test on the next day's result
SpecialApplies(special, next_guardian) == next_guardian = special.to_guardian

\* Faulty variant: the description is ignored.
SpecialHandoffText_generated(special) ==
    special.from_guardian \o UNDERSCORE_TO \o special.to_guardian \o <<"_">>
        \o HandoffTime_format(special.time)

\* The handoff a special handoff writes: its description, or the generated text
SpecialHandoffText(special) ==
    IF special.description # None /\ special.description # <<>>
    THEN special.description
    ELSE special.from_guardian \o UNDERSCORE_TO \o special.to_guardian \o <<"_">>
             \o HandoffTime_format(special.time)

\* A nested call of resolve_for_date, and the calls below it one level deeper
NestedCall(dt, check_handoff) == [dt |-> dt, check_handoff |-> check_handoff, depth |-> 1]
Deeper(calls) == [i \in 1..Len(calls) |-> [calls[i] EXCEPT !.depth = @ + 1]]

\* Faulty variant: the call for the next day leaves _check_handoff at its
\* default, True.
RECURSIVE Resolve_next_default(_, _, _)
Resolve_next_default(dt, c, check_handoff) ==
    LET iso_date == isoformat(dt)
        cw == iso_week(dt)
        day == from_python_weekday(weekday(dt))
    IN
    IF iso_date \in DOMAIN c.swaps \/ iso_date \in DOMAIN c.holidays
    THEN [result |-> OverrideResolution(c, iso_date, cw), calls |-> <<>>]
    ELSE IF day \notin {"monday", "tuesday", "wednesday", "thursday",
                        "friday", "saturday", "sunday"}
    THEN [result |-> Raised("AssertionError"), calls |-> <<>>]
    ELSE
    LET guardian == DayGuardian(c, day, cw)
        yesterday == Resolve_next_default(dt - 1, c, FALSE)
        yesterday_calls ==
            IF day = "friday"
            THEN <<NestedCall(dt - 1, FALSE)>> \o Deeper(yesterday.calls)
            ELSE <<>>
        handoff ==
            DayHandoff(c, day, guardian,
                       IF day = "friday" THEN yesterday.result.guardian ELSE None)
        looks_ahead == SpecialStarts(c, day, guardian, check_handoff)
        special == c.handoff.special_handoffs[day]
        next == Resolve_next_default(dt + 1, c, TRUE)
        next_calls ==
            IF looks_ahead
            THEN <<NestedCall(dt + 1, TRUE)>> \o Deeper(next.calls)
            ELSE <<>>
    IN
    IF day = "friday" /\ yesterday.result.raised
    THEN [result |-> yesterday.result, calls |-> yesterday_calls]
    ELSE IF looks_ahead /\ next.result.raised
    THEN [result |-> next.result, calls |-> yesterday_calls \o next_calls]
    ELSE IF looks_ahead /\ SpecialApplies(special, next.result.guardian)
    THEN [result |-> Resolution(iso_date, cw, guardian, SpecialHandoffText(special),
                                FALSE, None),
          calls |-> yesterday_calls \o next_calls]
    ELSE [result |-> Resolution(iso_date, cw, guardian, handoff, FALSE, None),
          calls |-> yesterday_calls \o next_calls]

\* Faulty variant: the neighbouring days are resolved from the rules alone,
\* their swap and holiday entries left aside.
RECURSIVE Resolve_rule_neighbours(_, _, _)
Resolve_rule_neighbours(dt, c, check_handoff) ==
    LET iso_date == isoformat(dt)
        cw == iso_week(dt)
        day == from_python_weekday(weekday(dt))
    IN
    IF iso_date \in DOMAIN c.swaps \/ iso_date \in DOMAIN c.holidays
    THEN [result |-> OverrideResolution(c, iso_date, cw), calls |-> <<>>]
    ELSE IF day \notin {"monday", "tuesday", "wednesday", "thursday",
                        "friday", "saturday", "sunday"}
    THEN [result |-> Raised("AssertionError"), calls |-> <<>>]
    ELSE
    LET guardian == DayGuardian(c, day, cw)
        rules_only == [c EXCEPT !.swaps = <<>>, !.holidays = <<>>]
        yesterday == Resolve_rule_neighbours(dt - 1, rules_only, FALSE)
        yesterday_calls ==
            IF day = "friday"
            THEN <<NestedCall(dt - 1, FALSE)>> \o Deeper(yesterday.calls)
            ELSE <<>>
        handoff ==
            DayHandoff(c, day, guardian,
                       IF day = "friday" THEN yesterday.result.guardian ELSE None)
        looks_ahead == SpecialStarts(c, day, guardian, check_handoff)
        special == c.handoff.special_handoffs[day]
        next == Resolve_rule_neighbours(dt + 1, rules_only, FALSE)
        next_calls ==
            IF looks_ahead
            THEN <<NestedCall(dt + 1, FALSE)>> \o Deeper(next.calls)
            ELSE <<>>
    IN
    IF day = "friday" /\ yesterday.result.raised
    THEN [result |-> yesterday.result, calls |-> yesterday_calls]
    ELSE IF looks_ahead /\ next.result.raised
    THEN [result |-> next.result, calls |-> yesterday_calls \o next_calls]
    ELSE IF looks_ahead /\ SpecialApplies(special, next.result.guardian)
    THEN [result |-> Resolution(iso_date, cw, guardian, SpecialHandoffText(special),
                                FALSE, None),
          calls |-> yesterday_calls \o next_calls]
    ELSE [result |-> Resolution(iso_date, cw, guardian, handoff, FALSE, None),
          calls |-> yesterday_calls \o next_calls]

\* Faulty variant: swap and holiday entries are looked up only when handoff
\* checking is on.
RECURSIVE Resolve_unchecked_rules(_, _, _)
Resolve_unchecked_rules(dt, c, check_handoff) ==
    LET iso_date == isoformat(dt)
        cw == iso_week(dt)
        day == from_python_weekday(weekday(dt))
    IN
    IF check_handoff /\ (iso_date \in DOMAIN c.swaps \/ iso_date \in DOMAIN c.holidays)
    THEN [result |-> OverrideResolution(c, iso_date, cw), calls |-> <<>>]
    ELSE IF day \notin {"monday", "tuesday", "wednesday", "thursday",
                        "friday", "saturday", "sunday"}
    THEN [result |-> Raised("AssertionError"), calls |-> <<>>]
    ELSE
    LET guardian == DayGuardian(c, day, cw)
        yesterday == Resolve_unchecked_rules(dt - 1, c, FALSE)
        yesterday_calls ==
            IF day = "friday"
            THEN <<NestedCall(dt - 1, FALSE)>> \o Deeper(yesterday.calls)
            ELSE <<>>
        handoff ==
            DayHandoff(c, day, guardian,
                       IF day = "friday" THEN yesterday.result.guardian ELSE None)
        looks_ahead == SpecialStarts(c, day, guardian, check_handoff)
        special == c.handoff.special_handoffs[day]
        next == Resolve_unchecked_rules(dt + 1, c, FALSE)
        next_calls ==
            IF looks_ahead
            THEN <<NestedCall(dt + 1, FALSE)>> \o Deeper(next.calls)
            ELSE <<>>
    IN
    IF day = "friday" /\ yesterday.result.raised
    THEN [result |-> yesterday.result, calls |-> yesterday_calls]
    ELSE IF looks_ahead /\ next.result.raised
    THEN [result |-> next.result, calls |-> yesterday_calls \o next_calls]
    ELSE IF looks_ahead /\ SpecialApplies(special, next.result.guardian)
    THEN [result |-> Resolution(iso_date, cw, guardian, SpecialHandoffText(special),
                                FALSE, None),
          calls |-> yesterday_calls \o next_calls]
    ELSE [result |-> Resolution(iso_date, cw, guardian, handoff, FALSE, None),
          calls |-> yesterday_calls \o next_calls]

\* One run of resolve_for_date(dt, cfg, _check_handoff): the value it returns
\* and the nested calls it makes, in order.
RECURSIVE Resolve(_, _, _)
Resolve(dt, c, check_handoff) ==
    LET iso_date == isoformat(dt)
        cw == iso_week(dt)
        day == from_python_weekday(weekday(dt))
    IN
    IF iso_date \in DOMAIN c.swaps \/ iso_date \in DOMAIN c.holidays
    THEN [result |-> OverrideResolution(c, iso_date, cw), calls |-> <<>>]
    ELSE IF day \notin {"monday", "tuesday", "wednesday", "thursday",
                        "friday", "saturday", "sunday"}
    THEN [result |-> Raised("AssertionError"), calls |-> <<>>]
    ELSE
    LET guardian == DayGuardian(c, day, cw)
        yesterday == Resolve(dt - 1, c, FALSE)
        yesterday_calls ==
            IF day = "friday"
            THEN <<NestedCall(dt - 1, FALSE)>> \o Deeper(yesterday.calls)
            ELSE <<>>
        handoff ==
            DayHandoff(c, day, guardian,
                       IF day = "friday" THEN yesterday.result.guardian ELSE None)
        looks_ahead == SpecialStarts(c, day, guardian, check_handoff)
        special == c.handoff.special_handoffs[day]
        next == Resolve(dt + 1, c, FALSE)
        next_calls ==
            IF looks_ahead
            THEN <<NestedCall(dt + 1, FALSE)>> \o Deeper(next.calls)
            ELSE <<>>
    IN
    IF day = "friday" /\ yesterday.result.raised
    THEN [result |-> yesterday.result, calls |-> yesterday_calls]
    ELSE IF looks_ahead /\ next.result.raised
    THEN [result |-> next.result, calls |-> yesterday_calls \o next_calls]
    ELSE IF looks_ahead /\ SpecialApplies(special, next.result.guardian)
    THEN [result |-> Resolution(iso_date, cw, guardian, SpecialHandoffText(special),
                                FALSE, None),
          calls |-> yesterday_calls \o next_calls]
    ELSE [result |-> Resolution(iso_date, cw, guardian, handoff, FALSE, None),
          calls |-> yesterday_calls \o next_calls]

\* resolve_for_date(dt, cfg, _check_handoff)
resolve_for_date(dt, c, check_handoff) == Resolve(dt, c, check_handoff).result

\* d[k] = v on a dict
Put(d, k, v) == (k :> v) @@ d

\* The for loop of resolve_week_of from offset on, out being the dict so far
RECURSIVE resolve_week_of_loop(_, _, _, _)
resolve_week_of_loop(monday, c, offset, out) ==
    IF offset >= 7 THEN Returned(out)
    ELSE LET current == monday + offset
             res == resolve_for_date(current, c, TRUE)
             day == from_python_weekday(weekday(current))
         IN  IF res.raised THEN res
             ELSE resolve_week_of_loop(monday, c, offset + 1, Put(out, day, res))

\* Faulty variant: the anchor is not moved back to its Monday.
resolve_week_of_from_anchor(anchor, c) ==
    resolve_week_of_loop(anchor, c, 0, <<>>)

\* resolve_week_of(anchor, cfg)
resolve_week_of(anchor, c) ==
    resolve_week_of_loop(anchor - weekday(anchor), c, 0, <<>>)

\* _daterange(start, days): the dates it yields, in order
daterange(start, days) == [i \in 1..days |-> start + (i - 1)]

\* The body of the loop of resolve_range: the record of d with its annotations
DayRecord(d, c) ==
    LET rec == resolve_for_date(d, c, TRUE)
        annotated ==
            [weekday |-> from_python_weekday(weekday(d)),
             iso_date |-> isoformat(d),
             calendar_week_system |-> c.calendar_week_system] @@ rec
        swap == c.swaps[isoformat(d)]
    IN  IF rec.raised THEN rec
        ELSE IF rec.is_swap /\ isoformat(d) \in DOMAIN c.swaps
                /\ swap.color # None /\ swap.color # <<>>
        THEN [swap_color |-> swap.color] @@ annotated
        ELSE annotated

\* The for loop of resolve_range over the dates ds from the i-th on, out being
\* the list so far
RECURSIVE RangeRecords(_, _, _, _)
RangeRecords(ds, c, i, out) ==
    IF i > Len(ds) THEN Returned(out)
    ELSE LET rec == DayRecord(ds[i], c)
         IN  IF rec.raised THEN rec
             ELSE RangeRecords(ds, c, i + 1, Append(out, rec))

\* Faulty variant: the range is started on the Monday of the start's week.
resolve_range_from_monday(start, weeks, c) ==
    RangeRecords(daterange(start - weekday(start), weeks * 7), c, 1, <<>>)

\* resolve_range(start, weeks, cfg)
resolve_range(start, weeks, c) == RangeRecords(daterange(start, weeks * 7), c, 1, <<>>)

---------------------------------------------------------------------------
(* visualizer.py *)

\* re: the characters \s matches, of those a handoff text here can hold
Whitespace == {" ", "\t", "\n", "\r", "\f"}

\* re.IGNORECASE and str.lower() on the letters the patterns name
lower(ch) ==
    CASE ch = "A" -> "a" [] ch = "B" -> "b" [] ch = "M" -> "m"
      [] ch = "P" -> "p" [] ch = "Y" -> "y" [] OTHER -> ch

\* How many characters (\d{1,2}) takes at p, greedily; 0 when it does not
\* match. In each pattern a digit cannot start what follows the group, so
\* giving a digit back never turns a failure into a match.
DigitsLen(s, p) ==
    IF ~IsDigit(At(s, p)) THEN 0 ELSE IF IsDigit(At(s, p + 1)) THEN 2 ELSE 1

\* How many characters [_\s]? takes at p
SeparatorLen(s, p) == IF At(s, p) = "_" \/ At(s, p) \in Whitespace THEN 1 ELSE 0

\* How many characters \s? takes at p
SpaceLen(s, p) == IF At(s, p) \in Whitespace THEN 1 ELSE 0

\* "by" at p, in either case
ByAt(s, p) == lower(At(s, p)) = "b" /\ lower(At(s, p + 1)) = "y"

\* (am|pm) at p, in either case: the group lowered, empty when it does not match
AmPmAt(s, p) ==
    IF lower(At(s, p)) \in {"a", "p"} /\ lower(At(s, p + 1)) = "m"
    THEN <<lower(At(s, p)), "m">> ELSE <<>>

\* The float hour + minute / 60.0, as a number of sixtieths; None where a
\* float | None is returned
Sixtieths(hour, minute) == [kind |-> "float", sixtieths |-> hour * 60 + minute]
NoFloat == [kind |-> "None"]

\* (\d{1,2}):(\d{2}) at p: whether it matches, and hour + minute / 60.0
ClockAt(s, p) ==
    LET n == DigitsLen(s, p)
        found == n > 0 /\ At(s, p + n) = ":"
                     /\ IsDigit(At(s, p + n + 1)) /\ IsDigit(At(s, p + n + 2))
    IN  [found |-> found,
         value |-> IF found THEN Sixtieths(IntAt(s, p, n), IntAt(s, p + n + 1, 2)) ELSE NoFloat]

\* (\d{1,2})\s?(am|pm) at p: whether it matches, and float(hour) after the
\* am/pm adjustment
TwelveHourAt(s, p) ==
    LET n == DigitsLen(s, p)
        am_pm == AmPmAt(s, p + n + SpaceLen(s, p + n))
        found == n > 0 /\ am_pm # <<>>
        hour == IF found THEN IntAt(s, p, n) ELSE 0
    IN  [found |-> found,
         value |-> IF ~found THEN NoFloat
                   ELSE IF am_pm = <<"p", "m">> /\ hour # 12 THEN Sixtieths(hour + 12, 0)
                   ELSE IF am_pm = <<"a", "m">> /\ hour = 12 THEN Sixtieths(0, 0)
                   ELSE Sixtieths(hour, 0)]

NoMatch == [found |-> FALSE, value |-> NoFloat]

\* by[_\s]?(\d{1,2}):(\d{2}) at p
ByClockAt(s, p) ==
    IF ByAt(s, p) THEN ClockAt(s, p + 2 + SeparatorLen(s, p + 2)) ELSE NoMatch

\* by[_\s]?(\d{1,2})\s?(am|pm) at p
ByTwelveHourAt(s, p) ==
    IF ByAt(s, p) THEN TwelveHourAt(s, p + 2 + SeparatorLen(s, p + 2)) ELSE NoMatch

\* re.search, given what the pattern does at each position of the string:
\* the match at the least position that has one
search(at) ==
    LET starts == {p \in DOMAIN at : at[p].found}
    IN  IF starts = {} THEN NoMatch
        ELSE at[CHOOSE p \in starts : \A q \in starts : p <= q]

\* _parse_handoff_time(handoff): patterns 1 to 4 in turn, None when none matches
parse_handoff_time(handoff) ==
    LET positions == 1..Len(handoff)
        by_clock == search([p \in positions |-> ByClockAt(handoff, p)])
        by_twelve == search([p \in positions |-> ByTwelveHourAt(handoff, p)])
        twelve == search([p \in positions |-> TwelveHourAt(handoff, p)])
        clock == search([p \in positions |-> ClockAt(handoff, p)])
    IN  IF by_clock.found THEN by_clock.value
        ELSE IF by_twelve.found THEN by_twelve.value
        ELSE IF twelve.found THEN twelve.value
        ELSE IF clock.found THEN clock.value
        ELSE NoFloat

\* date.fromisoformat(s) on YYYY-MM-DD and YYYYMMDD; the week forms of ISO
\* 8601 hold a 'W', which no text here does. The date, or ValueError.
fromisoformat(s) ==
    LET extended == Len(s) = 10 /\ s[5] = "-" /\ s[8] = "-"
                        /\ \A i \in {1, 2, 3, 4, 6, 7, 9, 10} : IsDigit(s[i])
        basic == Len(s) = 8 /\ \A i \in 1..8 : IsDigit(s[i])
        year == IntAt(s, 1, 4)
        month == IF extended THEN IntAt(s, 6, 2) ELSE IntAt(s, 5, 2)
        day == IF extended THEN IntAt(s, 9, 2) ELSE IntAt(s, 7, 2)
    IN  IF ~extended /\ ~basic THEN Raised("ValueError")
        ELSE IF year < 1 \/ month \notin 1..12 THEN Raised("ValueError")
        ELSE IF day < 1 \/ day > days_in_month(year, month) THEN Raised("ValueError")
        ELSE Returned(ymd2ord(year, month, day))

\* Weekday(value): the member of that value, or ValueError
WeekdayOf(value) ==
    IF \E i \in 1..Len(Weekday) : Weekday[i] = value THEN Returned(value)
    ELSE Raised("ValueError")

\* week_idx of _build_index for the record at position idx (from 0)
week_idx(idx, record_date, start, sunday_first) ==
    LET days_since_start == record_date - start
        start_weekday_num == weekday(start)
        days_since_sunday == (start_weekday_num + 1) % 7
        adjusted_days == days_since_start + days_since_sunday
    IN  IF sunday_first
        THEN (IF start_weekday_num = 6 THEN days_since_start \div 7
              ELSE adjusted_days \div 7)
        ELSE idx \div 7

\* The for loop of _build_index from the record at position idx (from 0) on,
\* index being the dict so far: records whose date or weekday does not parse
\* are skipped
RECURSIVE build_index_loop(_, _, _, _, _)
build_index_loop(records, start, sunday_first, idx, index) ==
    IF idx >= Len(records) THEN index
    ELSE LET record == records[idx + 1]
             record_date == fromisoformat(record.date)
             weekday_value == WeekdayOf(record.weekday)
         IN  IF record_date.raised \/ weekday_value.raised
             THEN build_index_loop(records, start, sunday_first, idx + 1, index)
             ELSE build_index_loop(
                      records, start, sunday_first, idx + 1,
                      Put(index,
                          <<week_idx(idx, record_date.value, start, sunday_first),
                            weekday_value.value>>,
                          record))

\* _build_index(records, start, sunday_first)
build_index(records, start, sunday_first) ==
    build_index_loop(records, start, sunday_first, 0, <<>>)

\* record_index.get((row, weekday)) for every row and column that
\* render_schedule_image draws: the cells that get a record
DrawnCells(index, weeks) == {cell \in DOMAIN index : cell[1] \in 0..(weeks - 1)}

---------------------------------------------------------------------------
(* generator.py.  A path is the sequence of its parts below the working     *)
(* directory, which is the empty path; a file system maps the paths that    *)
(* exist to what they hold.                                                 *)

Directory == [kind |-> "dir"]
File(text) == [kind |-> "file", text |-> text]

\* Path.parent
parent(path) == SubSeq(path, 1, Len(path) - 1)

\* Path.suffix of the file names used here
Suffixes == ("my-schedule.yaml" :> ".yaml") @@ ("my-schedule.json" :> ".json")
path_suffix(path) ==
    IF path # <<>> /\ path[Len(path)] \in DOMAIN Suffixes THEN Suffixes[path[Len(path)]] ELSE ""

\* Path.exists(): a path below a file does not exist
exists(fs, path) == path = <<>> \/ path \in DOMAIN fs

is_dir(fs, path) == path = <<>> \/ (path \in DOMAIN fs /\ fs[path].kind = "dir")

\* Path.mkdir(parents=True, exist_ok=True): the file system it leaves, or
\* the error of os.mkdir when the path or one above it is a file
RECURSIVE mkdir(_, _)
mkdir(fs, path) ==
    IF is_dir(fs, path) THEN Returned(fs)
    ELSE IF exists(fs, path) THEN Raised("FileExistsError")
    ELSE IF exists(fs, parent(path)) /\ ~is_dir(fs, parent(path)) THEN Raised("NotADirectoryError")
    ELSE LET above == mkdir(fs, parent(path))
         IN  IF above.raised THEN above ELSE Returned(Put(above.value, path, Directory))

\* Path.write_text(text): open(path, "w") creates or truncates the file
write_text(fs, path, text) ==
    IF is_dir(fs, path) THEN Raised("IsADirectoryError")
    ELSE IF ~exists(fs, parent(path)) THEN Raised("FileNotFoundError")
    ELSE IF ~is_dir(fs, parent(path)) THEN Raised("NotADirectoryError")
    ELSE Returned(Put(fs, path, File(text)))

\* resources._TEMPLATE_INDEX
TemplateIndex == {"generic"}

\* name.strip().lower() of the template names used here
TemplateKey(name) == IF name = " Generic " THEN "generic" ELSE name

\* generate_config(params): the text for the outfile's suffix, or ValueError
\* for a template that load_template does not know. The text is kept as
\* what it was dumped from: the format and the parties.
generate_config(params) ==
    IF TemplateKey(params.template) \notin TemplateIndex THEN Raised("ValueError")
    ELSE Returned([format |-> IF path_suffix(params.outfile) \in {".yaml", ".yml"}
                              THEN "yaml" ELSE "json",
                   parties |-> [guardian_1 |-> params.guardian_1,
                                guardian_2 |-> params.guardian_2,
                                children |-> params.children]])

\* Faulty variant: the overwrite flag is not consulted; an existing file is
\* written over.
write_config_unguarded(fs, params) ==
    LET made == mkdir(fs, parent(params.outfile))
        text == generate_config(params)
        written == write_text(made.value, params.outfile, text.value)
    IN  IF made.raised THEN [result |-> made, files |-> fs]
        ELSE IF text.raised THEN [result |-> text, files |-> made.value]
        ELSE IF written.raised THEN [result |-> written, files |-> made.value]
        ELSE [result |-> Returned(params.outfile), files |-> written.value]

\* write_config(params) on the file system fs: what it returns or raises,
\* and the file system it leaves
write_config(fs, params) ==
    LET made == mkdir(fs, parent(params.outfile))
        text == generate_config(params)
        written == write_text(made.value, params.outfile, text.value)
    IN  IF exists(fs, params.outfile) /\ ~params.overwrite
        THEN [result |-> Raised("FileExistsError"), files |-> fs]
        ELSE IF made.raised THEN [result |-> made, files |-> fs]
        ELSE IF text.raised THEN [result |-> text, files |-> made.value]
        ELSE IF written.raised THEN [result |-> written, files |-> made.value]
        ELSE [result |-> Returned(params.outfile), files |-> written.value]

---------------------------------------------------------------------------
(* The dicts of resolver.py and exporter.py as objects. A heap is the       *)
(* sequence of the dicts built so far, a dict's address its place in it;    *)
(* the values a dict holds (str, int, bool, None) are immutable and stay    *)
(* values. The dicts of nested calls are dropped when the call returns.     *)

\* Faulty variant: a dict is kept per date and handed out again when the
\* date is resolved once more.
dict_address_memo(h, rec) ==
    IF \E a \in DOMAIN h : h[a].date = rec.date
    THEN CHOOSE a \in DOMAIN h : h[a].date = rec.date
    ELSE Len(h) + 1

\* The address of the dict that the display at the return statements of
\* resolve_for_date evaluates to: a new object
dict_address(h, rec) == Len(h) + 1

\* resolve_for_date(dt, cfg) on the heap h: the address of the dict returned
\* and the heap after the call
resolve_for_date_object(h, dt, c) ==
    LET rec == resolve_for_date(dt, c, TRUE)
        a == dict_address(h, rec)
    IN  IF rec.raised THEN [result |-> rec, heap |-> h]
        ELSE [result |-> Returned(a),
              heap |-> IF a \in DOMAIN h THEN h ELSE Append(h, rec)]

\* rec[...] = ... of resolve_range, on the dict as it is: the three keys
\* of the day, and the swap's colour when the dict says the day is a swap
Assigned(dict, d, c) ==
    LET iso_date == isoformat(d)
        annotated ==
            [weekday |-> from_python_weekday(weekday(d)),
             iso_date |-> iso_date,
             calendar_week_system |-> c.calendar_week_system] @@ dict
    IN  IF dict.is_swap /\ iso_date \in DOMAIN c.swaps
           /\ c.swaps[iso_date].color # None /\ c.swaps[iso_date].color # <<>>
        THEN [swap_color |-> c.swaps[iso_date].color] @@ annotated
        ELSE annotated

RECURSIVE RangeObjects(_, _, _, _, _)

\* The body of the loop of resolve_range once resolve_for_date has returned
\* got for the i-th date, and the rest of the loop
RangeObjectsFrom(got, ds, c, i, out) ==
    IF got.result.raised THEN got
    ELSE RangeObjects([got.heap EXCEPT ![got.result.value] =
                           Assigned(got.heap[got.result.value], ds[i], c)],
                      ds, c, i + 1, Append(out, got.result.value))

\* The for loop of resolve_range over the dates ds from the i-th on: out is
\* the list of addresses so far
RangeObjects(h, ds, c, i, out) ==
    IF i > Len(ds) THEN [result |-> Returned(out), heap |-> h]
    ELSE CHOOSE run \in {RangeObjectsFrom(got, ds, c, i, out) :
                             got \in {resolve_for_date_object(h, ds[i], c)}} : TRUE

\* resolve_range(start, weeks, cfg) on the heap h
resolve_range_objects(h, start, weeks, c) ==
    RangeObjects(h, daterange(start, weeks * 7), c, 1, <<>>)

RECURSIVE WeekObjects(_, _, _, _, _)

\* The body of the loop of resolve_week_of once resolve_for_date has
\* returned got for the day at offset, and the rest of the loop
WeekObjectsFrom(got, monday, c, offset, out) ==
    IF got.result.raised THEN got
    ELSE WeekObjects(got.heap, monday, c, offset + 1,
                     Put(out, from_python_weekday(weekday(monday + offset)),
                         got.result.value))

\* The for loop of resolve_week_of from offset on: out maps the weekdays so
\* far to the addresses of their dicts
WeekObjects(h, monday, c, offset, out) ==
    IF offset >= 7 THEN [result |-> Returned(out), heap |-> h]
    ELSE CHOOSE run \in {WeekObjectsFrom(got, monday, c, offset, out) :
                             got \in {resolve_for_date_object(h, monday + offset, c)}} : TRUE

\* resolve_week_of(anchor, cfg) on the heap h
resolve_week_of_objects(h, anchor, c) ==
    WeekObjects(h, anchor - weekday(anchor), c, 0, <<>>)

\* The addresses in the value the operation o returned: one address from
\* resolve_for_date, a list or a dict of them from the other two
Addresses(o, value) ==
    IF o = "resolve_for_date" THEN {value} ELSE {value[k] : k \in DOMAIN value}

---------------------------------------------------------------------------
(* Configurations: ScheduleConfigModel values that validation accepts *)

\* ScheduleConfigModel, the fields the resolver reads
Config(weekdays, odd_weeks, even_weeks, handoff_weekdays, special_handoffs, holidays, swaps) ==
    [handoff |-> [weekdays |-> handoff_weekdays, special_handoffs |-> special_handoffs],
     rules |-> [weekdays |-> weekdays,
                weekends |-> [odd_weeks |-> odd_weeks, even_weeks |-> even_weeks]],
     holidays |-> holidays,
     swaps |-> swaps,
     calendar_week_system |-> ISO8601]

\* ScheduleConfigModel built from raw data: the validated configuration, or the
\* ValidationError that collects the errors of all fields
ScheduleConfigModel(raw) ==
    LET rule_errors ==
            UNION {{<<d, e>> : e \in WeekdayRule_errors(raw.even_weeks[d])} :
                      d \in DOMAIN raw.even_weeks}
        key_errors ==
            {f \in {"holidays", "swaps"} :
                \/ f = "holidays" /\ validate_holidays(raw.holidays).raised
                \/ f = "swaps" /\ validate_swaps(raw.swaps).raised}
    IN  IF rule_errors # {} \/ key_errors # {} THEN Raised("ValidationError")
        ELSE Returned(Config(raw.weekdays, raw.odd_weeks, raw.even_weeks, raw.handoff_weekdays,
                             raw.special_handoffs, raw.holidays, raw.swaps))

\* HandoffTime(hour, minute, use_24h, by)
HandoffTime(h, m, use_24h, by) == [hour |-> h, minute |-> m, use_24h |-> use_24h, by |-> by]

\* SpecialHandoff(from_guardian, to_guardian, time, description)
SpecialHandoff(from, to, time, description) ==
    [from_guardian |-> from, to_guardian |-> to, time |-> time, description |-> description]

\* SwapDate(guardian, handoff, note, color)
SwapDate(g, handoff, note, color) ==
    [guardian |-> g, handoff |-> handoff, note |-> note, color |-> color]

\* Handoff.weekdays: the literal "school", or WeekdayHandoffs(location)
HandoffWeekdaysStr == [kind |-> "str", value |-> SCHOOL]
WeekdayHandoffs(location) == [kind |-> "WeekdayHandoffs", location |-> location]

---------------------------------------------------------------------------
(* Inputs *)

\* Bounds of the model
MaxRules == 2
MaxWeek == 12
WindowDays == 21

\* The moduli of the modulo rules tried
Moduli == 2..4

g1 == GUARDIAN_1
g2 == GUARDIAN_2

WeekdayNames == {"monday", "tuesday", "wednesday", "thursday"}
WeekendNames == {"friday", "saturday", "sunday"}

\* Every modulo rule validation accepts, with a modulus of Moduli
ModuloRules ==
    {r \in [modulo : Moduli, remainder : 0..3, guardian : Guardian] : ValidModuloRule(r)}

\* Lists of at most MaxRules modulo rules
RuleLists == UNION {[1..n -> ModuloRules] : n \in 0..MaxRules}

\* Every value of Guardian | WeekdayRule within the bounds
Assignments ==
    {Bare(g) : g \in Guardian} \cup
    {WeekdayRule(rules, g) : rules \in RuleLists, g \in Guardian}

\* The calendar weeks resolve_weekday_rule is tried on: every residue of every modulus
Weeks == 1..MaxWeek

\* The dates resolved: three windows of WindowDays days starting on a Monday.
\* 2025-02-03 opens weeks 6, 7, 8; 2025-12-22 opens weeks 52, 1, 2;
\* 2026-12-21 opens weeks 52, 53, 1.
WindowStarts == {ymd2ord(2025, 2, 3), ymd2ord(2025, 12, 22), ymd2ord(2026, 12, 21)}

Dates == UNION {s..(s + WindowDays - 1) : s \in WindowStarts}

FirstWindow == ymd2ord(2025, 2, 3)..(ymd2ord(2025, 2, 3) + WindowDays - 1)

\* Texts a configuration may carry
SUNDAY_DESCRIPTION ==
    GUARDIAN_2 \o UNDERSCORE_TO \o GUARDIAN_1 \o <<"_", "b", "y", "_", "1", "p", "m">>
DAYCARE == <<"d", "a", "y", "c", "a", "r", "e">>
SWAP_HANDOFF == <<"a", "t", " ", "6", "p", "m">>
SWAP_NOTE == <<"t", "r", "a", "d", "e">>
SWAP_COLOR == <<"t", "e", "a", "l">>

\* The generic template (data/example-schedule.generic.json), as the tests read it
GenericWeekdays ==
    [monday |-> g1, tuesday |-> g2, wednesday |-> g1, thursday |-> g2]
GenericOdd == [friday |-> g1, saturday |-> g1, sunday |-> g1]
GenericSunday == WeekdayRule(<<CalendarWeekModuloRule(4, 0, g2)>>, g1)
GenericEven == [friday |-> Bare(g2), saturday |-> Bare(g2), sunday |-> GenericSunday]
GenericSpecial ==
    [d \in {"sunday"} |-> SpecialHandoff(g2, g1, HandoffTime(13, 0, FALSE, TRUE), SUNDAY_DESCRIPTION)]
NoEntries == [k \in {} |-> None]

GenericConfig ==
    Config(GenericWeekdays, GenericOdd, GenericEven, HandoffWeekdaysStr, GenericSpecial,
           NoEntries, NoEntries)

AltWeekdays == [monday |-> g2, tuesday |-> g2, wednesday |-> g1, thursday |-> g1]
AltOdd == [friday |-> g2, saturday |-> g1, sunday |-> g2]
AltEven ==
    [friday |-> WeekdayRule(<<CalendarWeekModuloRule(4, 2, g1)>>, g2),
     saturday |-> Bare(g2),
     sunday |-> Bare(g2)]

\* The assignments the even-week slots of RuleConfigs are drawn from
SlotAssignments ==
    {Bare(g2), GenericSunday,
     WeekdayRule(<<CalendarWeekModuloRule(2, 0, g1), CalendarWeekModuloRule(4, 0, g2)>>, g2)}

\* Rule blocks: every weekday block with the generic weekend, and the generic
\* weekday block with every odd-week block and every even-week block over
\* SlotAssignments.
RuleBlocks ==
    {<<wd, GenericOdd, GenericEven>> : wd \in [WeekdayNames -> Guardian]} \cup
    {<<GenericWeekdays, odd, even>> :
        odd \in [WeekendNames -> Guardian], even \in [WeekendNames -> SlotAssignments]}

RuleConfigs ==
    {Config(r[1], r[2], r[3], HandoffWeekdaysStr, GenericSpecial, NoEntries, NoEntries) :
        r \in RuleBlocks}

\* Special handoffs: none, or one on any one weekday, between any two
\* guardians (the same one twice included), with a description, with an empty
\* one, or with none and a time to format.
SpecialDays == WeekdayNames \cup WeekendNames

SpecialTexts ==
    {<<SUNDAY_DESCRIPTION, HandoffTime(13, 0, FALSE, TRUE)>>,
     <<None, HandoffTime(13, 0, FALSE, TRUE)>>,
     <<<<>>, HandoffTime(9, 5, TRUE, FALSE)>>}

SpecialHandoffSets ==
    {NoEntries} \cup
    {[d \in {day} |-> SpecialHandoff(from, to, t[2], t[1])] :
        day \in SpecialDays, from \in Guardian, to \in Guardian, t \in SpecialTexts}

TwoRuleBlocks == {<<GenericWeekdays, GenericOdd, GenericEven>>, <<AltWeekdays, AltOdd, AltEven>>}

HandoffConfigs ==
    {Config(r[1], r[2], r[3], hw, sp, NoEntries, NoEntries) :
        r \in TwoRuleBlocks,
        hw \in {HandoffWeekdaysStr, WeekdayHandoffs(DAYCARE)},
        sp \in SpecialHandoffSets}

\* Overrides: at most one holiday and at most one swap, on a Monday, a
\* Thursday or a Friday of the first window.
OverrideDates == {ymd2ord(2025, 2, 10), ymd2ord(2025, 2, 20), ymd2ord(2025, 2, 21)}

HolidaySets ==
    {NoEntries} \cup {[k \in {isoformat(d)} |-> g] : d \in OverrideDates, g \in Guardian}

SwapSets ==
    {NoEntries} \cup
    {[k \in {isoformat(d)} |-> SwapDate(g, t[1], t[2], t[3])] :
        d \in OverrideDates, g \in Guardian,
        t \in {<<None, None, None>>, <<SWAP_HANDOFF, SWAP_NOTE, SWAP_COLOR>>}}

OverrideSpecials ==
    {GenericSpecial,
     [d \in {"thursday"} |-> SpecialHandoff(g2, g1, HandoffTime(13, 0, FALSE, TRUE), None)]}

OverrideConfigs ==
    {Config(GenericWeekdays, GenericOdd, GenericEven, HandoffWeekdaysStr, sp, hol, sw) :
        sp \in OverrideSpecials, hol \in HolidaySets, sw \in SwapSets}

---------------------------------------------------------------------------
(* The state machine: one call of one operation on one input *)

NoResult == [raised |-> FALSE, pending |-> TRUE]

\* The file system of the operations that touch no file
NoFiles == <<>>

\* The heap of the operations whose records are taken by value
NoHeap == <<>>

Init ==
    /\ pc = "call"
    /\ result = NoResult
    /\ trace = <<>>
    /\ files = NoFiles
    /\ heap = NoHeap
    /\ \/ /\ op = "resolve_for_date"
          /\ cfg \in RuleConfigs
          /\ args \in [dt : Dates, check_handoff : BOOLEAN]
       \/ /\ op = "resolve_for_date"
          /\ cfg \in HandoffConfigs \cup OverrideConfigs
          /\ args \in [dt : FirstWindow, check_handoff : BOOLEAN]
       \/ /\ op = "resolve_weekday_rule"
          /\ cfg = GenericConfig
          /\ args \in [rule : Assignments, cw : Weeks]

CallResolveForDate ==
    /\ pc = "call"
    /\ op = "resolve_for_date"
    /\ LET run == Resolve(args.dt, cfg, args.check_handoff)
       IN  /\ result' = run.result
           /\ trace' = run.calls
    /\ pc' = "done"
    /\ UNCHANGED <<cfg, op, args, files, heap>>

CallResolveWeekdayRule ==
    /\ pc = "call"
    /\ op = "resolve_weekday_rule"
    /\ result' = resolve_weekday_rule(args.rule, args.cw)
    /\ trace' = <<resolve_weekday_rule_return(args.rule, args.cw)>>
    /\ pc' = "done"
    /\ UNCHANGED <<cfg, op, args, files, heap>>

Next == CallResolveForDate \/ CallResolveWeekdayRule

Spec == Init /\ [][Next]_vars

---------------------------------------------------------------------------
(* The state machine of the operations over several days: one call of      *)
(* resolve_week_of, resolve_range or iso_week                              *)

\* Bounds of the model
MaxRangeWeeks == 2
IsoWeekDays == 770

\* The numbers of weeks resolve_range is asked for, none and a negative one included
RangeWeeks == (-1)..MaxRangeWeeks

\* The dates iso_week is applied to: from 2024-12-23 on, over the turns of
\* 2024/25 (week 1 starts in December), 2025/26 (likewise) and 2026/27 (week 53)
IsoDates == ymd2ord(2024, 12, 23)..(ymd2ord(2024, 12, 23) + IsoWeekDays - 1)

\* The configurations resolved over the year ends
YearEndConfigs ==
    {Config(r[1], r[2], r[3], HandoffWeekdaysStr, GenericSpecial, NoEntries, NoEntries) :
        r \in TwoRuleBlocks}

\* The configurations with overrides resolved over the first window: at most
\* one holiday on Thursday 2025-02-20, at most one swap on Monday 2025-02-10
RangeOverrideConfigs ==
    {c \in OverrideConfigs :
        /\ c.handoff.special_handoffs = GenericSpecial
        /\ DOMAIN c.holidays \subseteq {isoformat(ymd2ord(2025, 2, 20))}
        /\ DOMAIN c.swaps \subseteq {isoformat(ymd2ord(2025, 2, 10))}}

InitRange ==
    /\ pc = "call"
    /\ result = NoResult
    /\ trace = <<>>
    /\ files = NoFiles
    /\ heap = NoHeap
    /\ \/ /\ op = "resolve_week_of"
          /\ \/ cfg \in RangeOverrideConfigs /\ args \in [anchor : FirstWindow]
             \/ cfg \in YearEndConfigs /\ args \in [anchor : Dates]
       \/ /\ op = "resolve_range"
          /\ \/ cfg \in RangeOverrideConfigs /\ args \in [start : FirstWindow, weeks : RangeWeeks]
             \/ cfg \in YearEndConfigs /\ args \in [start : Dates, weeks : RangeWeeks]
       \/ /\ op = "iso_week"
          /\ cfg = GenericConfig
          /\ args \in [dt : IsoDates]

CallResolveWeekOf ==
    /\ pc = "call"
    /\ op = "resolve_week_of"
    /\ result' = resolve_week_of(args.anchor, cfg)
    /\ pc' = "done"
    /\ UNCHANGED <<cfg, op, args, trace, files, heap>>

CallResolveRange ==
    /\ pc = "call"
    /\ op = "resolve_range"
    /\ result' = resolve_range(args.start, args.weeks, cfg)
    /\ pc' = "done"
    /\ UNCHANGED <<cfg, op, args, trace, files, heap>>

CallIsoWeek ==
    /\ pc = "call"
    /\ op = "iso_week"
    /\ result' = Returned(iso_week(args.dt))
    /\ pc' = "done"
    /\ UNCHANGED <<cfg, op, args, trace, files, heap>>

NextRange == CallResolveWeekOf \/ CallResolveRange \/ CallIsoWeek

SpecRange == InitRange /\ [][NextRange]_vars

---------------------------------------------------------------------------
(* The state machine of construction: ScheduleConfigModel built from raw data, and, when *)
(* it returns a configuration, one call of resolve_for_date on it           *)

\* Bound of the model: the number of holiday keys, and of swap keys
MaxKeys == 2

\* The modulo rules handed to construction, valid and not
RawModuli == 0..3
RawRemainders == (-1)..3
RawModuloRules == [modulo : RawModuli, remainder : RawRemainders, guardian : {g2}]

RawRuleLists == UNION {[1..n -> RawModuloRules] : n \in 0..MaxRules}

\* Even-week blocks: any list of rules on Sunday, or any one rule on Friday
\* or on Saturday
RawEvenBlocks ==
    {[GenericEven EXCEPT !.sunday = WeekdayRule(rules, g1)] : rules \in RawRuleLists} \cup
    {[GenericEven EXCEPT ![d] = WeekdayRule(<<r>>, g1)] :
        d \in {"friday", "saturday"}, r \in RawModuloRules}

\* Date keys: two well-formed ones, one without zero padding, one of a day
\* and one of a month that do not exist, one without separators
RawKeys ==
    {<<"2", "0", "2", "5", "-", "0", "2", "-", "1", "0">>,
     <<"2", "0", "2", "5", "-", "0", "2", "-", "2", "0">>,
     <<"2", "0", "2", "5", "-", "2", "-", "1", "0">>,
     <<"2", "0", "2", "5", "-", "0", "2", "-", "3", "0">>,
     <<"2", "0", "2", "5", "-", "1", "3", "-", "0", "1">>,
     <<"2", "0", "2", "5", "0", "2", "1", "0">>}

KeySets == {S \in SUBSET RawKeys : Cardinality(S) <= MaxKeys}

RawHolidays == {[k \in S |-> g] : S \in KeySets, g \in Guardian}

\* Swap keys are varied over the keys whose fate does not hang on how strict
\* the validator of swaps is: the well-formed ones and those no date parser takes
RawSwaps ==
    {[k \in S |-> SwapDate(g, None, None, None)] :
        S \in {T \in KeySets : \A k \in T : Len(k) # 9}, g \in Guardian}

\* The data handed to ScheduleConfigModel; the fields not varied are the
\* generic template's
RawConfig(even_weeks, holidays, swaps) ==
    [weekdays |-> GenericWeekdays, odd_weeks |-> GenericOdd, even_weeks |-> even_weeks,
     handoff_weekdays |-> HandoffWeekdaysStr, special_handoffs |-> GenericSpecial,
     holidays |-> holidays, swaps |-> swaps]

RawConfigs ==
    {RawConfig(e, NoEntries, NoEntries) : e \in RawEvenBlocks} \cup
    {RawConfig(GenericEven, h, s) : h \in RawHolidays, s \in RawSwaps}

\* The dates resolved on a constructed configuration: the even-week weekends
\* of weeks 6 and 8 and the days the well-formed keys name
ValidateDates ==
    {ymd2ord(2025, 2, 7), ymd2ord(2025, 2, 8), ymd2ord(2025, 2, 9), ymd2ord(2025, 2, 10),
     ymd2ord(2025, 2, 20), ymd2ord(2025, 2, 23)}

InitValidate ==
    /\ pc = "construct"
    /\ op = "ScheduleConfigModel"
    /\ args \in RawConfigs
    /\ cfg = None
    /\ result = NoResult
    /\ trace = <<>>
    /\ files = NoFiles
    /\ heap = NoHeap

\* ScheduleConfigModel built from args: a configuration, or ValidationError and no object
Construct ==
    /\ pc = "construct"
    /\ \E made \in {ScheduleConfigModel(args)} :
        /\ result' = made
        /\ IF made.raised
           THEN pc' = "rejected" /\ cfg' = cfg
           ELSE pc' = "constructed" /\ cfg' = made.value
    /\ UNCHANGED <<op, args, trace, files, heap>>

\* The caller hands the configuration it got to resolve_for_date
UseConfig ==
    /\ pc = "constructed"
    /\ op' = "resolve_for_date"
    /\ args' \in [dt : ValidateDates, check_handoff : BOOLEAN]
    /\ result' = NoResult
    /\ pc' = "call"
    /\ UNCHANGED <<cfg, trace, files, heap>>

NextValidate == Construct \/ UseConfig \/ CallResolveForDate

SpecValidate == InitValidate /\ [][NextValidate]_vars

---------------------------------------------------------------------------
(* Handoff times: HandoffTime.format on every time the model accepts, and   *)
(* _parse_handoff_time on the handoff texts the resolver writes from them   *)

\* HandoffTime: hour 0..23, minute 0..59, both flags
HandoffTimes ==
    {HandoffTime(h, m, use_24h, by) :
        h \in 0..23, m \in 0..59, use_24h \in BOOLEAN, by \in BOOLEAN}

\* Special handoffs between two different guardians: with no description and
\* every time, and the described one of the generic schedule
TimedSpecials ==
    {SpecialHandoff(pair[1], pair[2], t, None) :
        pair \in {p \in Guardian \X Guardian : p[1] # p[2]}, t \in HandoffTimes}
    \cup {GenericSpecial["sunday"]}

InitTime ==
    /\ pc = "call"
    /\ cfg = None
    /\ result = NoResult
    /\ trace = <<>>
    /\ files = NoFiles
    /\ heap = NoHeap
    /\ \/ /\ op = "HandoffTime.format"
          /\ args \in [time : HandoffTimes]
       \/ /\ op = "_parse_handoff_time"
          /\ args \in {[special |-> special, handoff |-> SpecialHandoffText(special)] :
                          special \in TimedSpecials}

CallFormat ==
    /\ pc = "call"
    /\ op = "HandoffTime.format"
    /\ result' = Returned(HandoffTime_format(args.time))
    /\ pc' = "done"
    /\ UNCHANGED <<cfg, op, args, trace, files, heap>>

CallParseHandoffTime ==
    /\ pc = "call"
    /\ op = "_parse_handoff_time"
    /\ result' = Returned(parse_handoff_time(args.handoff))
    /\ pc' = "done"
    /\ UNCHANGED <<cfg, op, args, trace, files, heap>>

NextTime == CallFormat \/ CallParseHandoffTime

SpecTime == InitTime /\ [][NextTime]_vars

---------------------------------------------------------------------------
(* render_schedule_image up to its grid: the records of a range indexed by  *)
(* row and weekday                                                          *)

\* The start dates of the rendered ranges: every weekday, twice
RenderStarts == ymd2ord(2025, 2, 3)..(ymd2ord(2025, 2, 3) + 13)

InitRender ==
    /\ pc = "call"
    /\ op = "_build_index"
    /\ cfg \in YearEndConfigs
    /\ result = NoResult
    /\ trace = <<>>
    /\ files = NoFiles
    /\ heap = NoHeap
    /\ \E start \in RenderStarts, weeks \in 1..MaxRangeWeeks :
          args \in [records : {resolve_range(start, weeks, cfg).value},
                    start : {start}, weeks : {weeks}, sunday_first : BOOLEAN]

CallBuildIndex ==
    /\ pc = "call"
    /\ op = "_build_index"
    /\ LET record_index == build_index(args.records, args.start, args.sunday_first)
       IN  result' = Returned([record_index |-> record_index,
                               drawn |-> DrawnCells(record_index, args.weeks)])
    /\ pc' = "done"
    /\ UNCHANGED <<cfg, op, args, trace, files, heap>>

NextRender == CallBuildIndex

SpecRender == InitRender /\ [][NextRender]_vars

---------------------------------------------------------------------------
(* write_config, called up to MaxCalls times on one file system, as by      *)
(* repeated runs of the init command                                        *)

MaxCalls == 2

\* The outfiles: the default of InitParams and one in the working directory
SchemaOutfile == <<"schema", "my-schedule.yaml">>
PlainOutfile == <<"my-schedule.json">>

\* The text of a file that was there before
EXISTING_TEXT == [format |-> "yaml", parties |-> <<>>]

\* What one path may hold at the start: nothing, a file, a directory
Holdings(path) ==
    {<<>>, path :> File(EXISTING_TEXT), path :> Directory}

\* The file systems at the start: each outfile absent, a file or a
\* directory; the schema directory absent, there, or a file of that name
StartFiles ==
    {plain @@ schema : plain \in Holdings(PlainOutfile),
                       schema \in
                           {<<>>, parent(SchemaOutfile) :> File(EXISTING_TEXT)} \cup
                           {(parent(SchemaOutfile) :> Directory) @@ h :
                               h \in Holdings(SchemaOutfile)}}

\* InitParams(guardian_1, guardian_2, children, template, outfile, overwrite)
InitParamsTried ==
    [guardian_1 : {"Jane", "Ana"}, guardian_2 : {"John"}, children : {<<"Kim">>},
     template : {"generic", " Generic ", "weekly"},
     outfile : {SchemaOutfile, PlainOutfile},
     overwrite : BOOLEAN]

InitWrite ==
    /\ pc = "call"
    /\ op = "write_config"
    /\ cfg = None
    /\ args \in InitParamsTried
    /\ result = NoResult
    /\ trace = <<>>
    /\ files \in StartFiles
    /\ heap = NoHeap

\* write_config(params); trace keeps the file system each call started on
CallWriteConfig ==
    /\ pc = "call"
    /\ op = "write_config"
    /\ LET run == write_config(files, args)
       IN  /\ result' = run.result
           /\ files' = run.files
    /\ trace' = Append(trace, files)
    /\ pc' = "done"
    /\ UNCHANGED <<cfg, op, args, heap>>

\* The command is run once more, on the file system the last run left
RunInitAgain ==
    /\ pc = "done"
    /\ op = "write_config"
    /\ Len(trace) < MaxCalls
    /\ args' \in InitParamsTried
    /\ result' = NoResult
    /\ pc' = "call"
    /\ UNCHANGED <<cfg, op, trace, files, heap>>

NextWrite == CallWriteConfig \/ RunInitAgain

SpecWrite == InitWrite /\ [][NextWrite]_vars

---------------------------------------------------------------------------
(* Two resolutions on one configuration, the caller writing to a dict of    *)
(* the first before the second                                              *)

\* The week of Monday 2025-02-10
FreshMonday == ymd2ord(2025, 2, 10)
FreshDates == FreshMonday..(FreshMonday + 6)

FreshConfigs == RangeOverrideConfigs \cup {GenericConfig}

\* The calls tried
FreshCalls ==
    [op : {"resolve_for_date"}, args : [dt : FreshDates]] \cup
    [op : {"resolve_week_of"}, args : [anchor : {FreshMonday + 2}]] \cup
    [op : {"resolve_range"}, args : [start : {FreshMonday, FreshMonday + 3}, weeks : {1}]]

\* What the caller writes: the guardian's name over the key, as the resolve
\* command does, or a key of its own
CallerWrites == {<<"guardian", <<"J", "a", "n", "e">>>>, <<"seen", TRUE>>}

InitFresh ==
    /\ pc = "call"
    /\ cfg \in FreshConfigs
    /\ \E call \in FreshCalls : op = call.op /\ args = call.args
    /\ result = NoResult
    /\ trace = <<>>
    /\ files = NoFiles
    /\ heap = NoHeap

\* What a returned value holds once its addresses are followed
Contents(h, o, value) ==
    IF o = "resolve_for_date" THEN h[value] ELSE [k \in DOMAIN value |-> h[value[k]]]

\* The call returns: result holds addresses into the new heap; trace keeps
\* the call, the configuration and the dicts as they were on return
Return(run) ==
    /\ result' = run.result
    /\ heap' = run.heap
    /\ trace' = Append(trace,
                       [op |-> op, args |-> args, cfg |-> cfg, result |-> run.result,
                        records |-> IF run.result.raised THEN <<>>
                                    ELSE Contents(run.heap, op, run.result.value)])
    /\ pc' = "done"
    /\ UNCHANGED <<cfg, op, args, files>>

CallResolveForDateObject ==
    /\ pc = "call"
    /\ op = "resolve_for_date"
    /\ \E run \in {resolve_for_date_object(heap, args.dt, cfg)} : Return(run)

CallResolveWeekOfObjects ==
    /\ pc = "call"
    /\ op = "resolve_week_of"
    /\ \E run \in {resolve_week_of_objects(heap, args.anchor, cfg)} : Return(run)

CallResolveRangeObjects ==
    /\ pc = "call"
    /\ op = "resolve_range"
    /\ \E run \in {resolve_range_objects(heap, args.start, args.weeks, cfg)} : Return(run)

\* The caller assigns a key of a dict it was handed
CallerAssigns ==
    /\ pc = "done"
    /\ Len(trace) = 1
    /\ ~result.raised
    /\ \E a \in Addresses(op, result.value), w \in CallerWrites :
           heap' = [heap EXCEPT ![a] = Put(heap[a], w[1], w[2])]
    /\ pc' = "assigned"
    /\ UNCHANGED <<cfg, op, args, result, trace, files>>

\* A later call on the same configuration
CallLater ==
    /\ pc \in {"done", "assigned"}
    /\ Len(trace) = 1
    /\ \E call \in FreshCalls : op' = call.op /\ args' = call.args
    /\ result' = NoResult
    /\ pc' = "call"
    /\ UNCHANGED <<cfg, trace, files, heap>>

NextFresh ==
    \/ CallResolveForDateObject
    \/ CallResolveWeekOfObjects
    \/ CallResolveRangeObjects
    \/ CallerAssigns
    \/ CallLater

SpecFresh == InitFresh /\ [][NextFresh]_vars

---------------------------------------------------------------------------
(* resolve_for_date called twice on one date, with and without handoff     *)
(* checking, the way the nested calls of resolver.py:95 and :122 repeat a   *)
(* top-level call                                                           *)

\* Overrides next to a Friday and next to a day with a special handoff:
\* Thursday 2025-02-13 (before a Friday of another guardian), Thursday
\* 2025-02-20 (before a Friday of the same guardian), Friday 2025-02-21
\* (after a Thursday with a special handoff) and Monday 2025-02-24 (after a
\* Sunday with one)
NeighbourDates ==
    {ymd2ord(2025, 2, 13), ymd2ord(2025, 2, 20), ymd2ord(2025, 2, 21), ymd2ord(2025, 2, 24)}

NeighbourHolidays ==
    {NoEntries} \cup {[k \in {isoformat(d)} |-> g] : d \in NeighbourDates, g \in Guardian}

NeighbourSwaps ==
    {NoEntries} \cup
    {[k \in {isoformat(d)} |-> SwapDate(g, t[1], t[2], t[3])] :
        d \in NeighbourDates, g \in Guardian,
        t \in {<<None, None, None>>, <<SWAP_HANDOFF, SWAP_NOTE, SWAP_COLOR>>}}

NeighbourConfigs ==
    {Config(GenericWeekdays, GenericOdd, GenericEven, HandoffWeekdaysStr, sp, hol, sw) :
        sp \in OverrideSpecials, hol \in NeighbourHolidays, sw \in NeighbourSwaps}

InitTwice ==
    /\ pc = "call"
    /\ op = "resolve_for_date"
    /\ result = NoResult
    /\ trace = <<>>
    /\ files = NoFiles
    /\ heap = NoHeap
    /\ \/ /\ cfg \in HandoffConfigs \cup NeighbourConfigs
          /\ args \in [dt : FirstWindow, check_handoff : BOOLEAN]
       \/ /\ cfg = GenericConfig
          /\ args \in [dt : IsoDates, check_handoff : BOOLEAN]

\* The caller keeps the record it got and resolves the same date with the
\* other value of _check_handoff
CallAgain ==
    /\ pc = "done"
    /\ op = "resolve_for_date"
    /\ DOMAIN args = {"dt", "check_handoff"}
    /\ args' = [dt |-> args.dt, check_handoff |-> ~args.check_handoff, earlier |-> result]
    /\ result' = NoResult
    /\ pc' = "call"
    /\ UNCHANGED <<cfg, op, trace, files, heap>>

NextTwice == CallResolveForDate \/ CallAgain

SpecTwice == InitTwice /\ [][NextTwice]_vars

---------------------------------------------------------------------------
(* Properties.  What a property expects is written here from the claim, with *)
(* its own reading of keys, rule lists and neighbouring days.                *)

Done(o) == pc = "done" /\ op = o

DigitValue(ch) == CHOOSE i \in 0..9 : DigitChars[i + 1] = ch

\* The date a "YYYY-MM-DD" key denotes
KeyDate(k) ==
    ymd2ord(DigitValue(k[1]) * 1000 + DigitValue(k[2]) * 100
                + DigitValue(k[3]) * 10 + DigitValue(k[4]),
            DigitValue(k[6]) * 10 + DigitValue(k[7]),
            DigitValue(k[9]) * 10 + DigitValue(k[10]))

SwapKeysAt(d) == {k \in DOMAIN cfg.swaps : KeyDate(k) = d}
HolidayKeysAt(d) == {k \in DOMAIN cfg.holidays : KeyDate(k) = d}
Overridden(d) == SwapKeysAt(d) # {} \/ HolidayKeysAt(d) # {}

\* The guardian the rules alone give a date
Matching(rule, cw) ==
    {i \in 1..Len(rule.modulo_rules) :
        cw % rule.modulo_rules[i].modulo = rule.modulo_rules[i].remainder}

Earliest(S) == CHOOSE i \in S : \A j \in S : i <= j

ExpectedAssignment(rule, cw) ==
    IF rule.kind = "Guardian" THEN rule.guardian
    ELSE IF Matching(rule, cw) # {} THEN rule.modulo_rules[Earliest(Matching(rule, cw))].guardian
    ELSE rule.otherwise

ExpectedGuardian(d) ==
    LET i == weekday(d)
    IN  IF i <= 3 THEN cfg.rules.weekdays[Weekday[i + 1]]
        ELSE IF iso_week(d) % 2 = 1 THEN cfg.rules.weekends.odd_weeks[Weekday[i + 1]]
        ELSE ExpectedAssignment(cfg.rules.weekends.even_weeks[Weekday[i + 1]], iso_week(d))

\* C1: resolve_for_date returns for every date and every valid configuration,
\* and the guardian it returns is one of the two guardians.
C1_Total ==
    Done("resolve_for_date") => ~result.raised /\ result.guardian \in Guardian

\* An even-week Sunday whose conditional assignment matches no rule
C1_Witness ==
    /\ Done("resolve_for_date")
    /\ ~Overridden(args.dt)
    /\ weekday(args.dt) = 6
    /\ iso_week(args.dt) % 2 = 0
    /\ cfg.rules.weekends.even_weeks.sunday.kind = "WeekdayRule"
    /\ Matching(cfg.rules.weekends.even_weeks.sunday, iso_week(args.dt)) = {}
    /\ result.guardian = cfg.rules.weekends.even_weeks.sunday.otherwise

\* C2: on a date with a swap entry the guardian is the swap's, whatever the
\* rules compute and whether or not the date has a holiday entry too.
C2_SwapWins ==
    Done("resolve_for_date") =>
        \A k \in SwapKeysAt(args.dt) :
            ~result.raised /\ result.guardian = cfg.swaps[k].guardian

\* A swap date that also has a holiday entry, both naming the other guardian
C2_Witness ==
    /\ Done("resolve_for_date")
    /\ \E k \in SwapKeysAt(args.dt) :
        /\ k \in HolidayKeysAt(args.dt)
        /\ cfg.holidays[k] # cfg.swaps[k].guardian
        /\ ExpectedGuardian(args.dt) # cfg.swaps[k].guardian
        /\ result.guardian = cfg.swaps[k].guardian

\* C3: is_swap is true exactly on the dates with a swap entry; on every other
\* date is_swap is false and swap_note is null.
C3_IsSwap ==
    Done("resolve_for_date") =>
        /\ ~result.raised
        /\ result.is_swap = (SwapKeysAt(args.dt) # {})
        /\ SwapKeysAt(args.dt) = {} => result.swap_note = None

\* A holiday date without a swap, in a configuration that has a swap elsewhere
C3_Witness ==
    /\ Done("resolve_for_date")
    /\ HolidayKeysAt(args.dt) # {}
    /\ SwapKeysAt(args.dt) = {}
    /\ DOMAIN cfg.swaps # {}
    /\ result.is_swap = FALSE

\* C4: on a swap date handoff and swap_note are the swap's own, null when
\* omitted, and no neighbouring day is resolved.
C4_SwapVerbatim ==
    Done("resolve_for_date") =>
        \A k \in SwapKeysAt(args.dt) :
            /\ result.handoff = cfg.swaps[k].handoff
            /\ result.swap_note = cfg.swaps[k].note
            /\ trace = <<>>

\* A swap without a handoff on a Thursday that has a special handoff
C4_Witness ==
    /\ Done("resolve_for_date")
    /\ args.check_handoff
    /\ weekday(args.dt) = 3
    /\ "thursday" \in DOMAIN cfg.handoff.special_handoffs
    /\ \E k \in SwapKeysAt(args.dt) :
        /\ cfg.swaps[k].handoff = None
        /\ cfg.swaps[k].guardian = cfg.handoff.special_handoffs["thursday"].from_guardian
    /\ result.handoff = None

\* C5: on a date with a holiday entry and no swap entry the guardian is the
\* holiday's, handoff and swap_note are null and is_swap is false.
C5_Holiday ==
    Done("resolve_for_date") =>
        \A k \in HolidayKeysAt(args.dt) :
            SwapKeysAt(args.dt) = {} =>
                /\ ~result.raised
                /\ result.guardian = cfg.holidays[k]
                /\ result.handoff = None
                /\ result.is_swap = FALSE
                /\ result.swap_note = None

\* A holiday on a Thursday that has a special handoff from the holiday's
\* guardian to the guardian of the Friday after it
C5_Witness ==
    /\ Done("resolve_for_date")
    /\ args.check_handoff
    /\ weekday(args.dt) = 3
    /\ SwapKeysAt(args.dt) = {}
    /\ "thursday" \in DOMAIN cfg.handoff.special_handoffs
    /\ \E k \in HolidayKeysAt(args.dt) :
        /\ cfg.holidays[k] = cfg.handoff.special_handoffs["thursday"].from_guardian
        /\ result.guardian = cfg.holidays[k]
    /\ resolve_for_date(args.dt + 1, cfg, TRUE).guardian
           = cfg.handoff.special_handoffs["thursday"].to_guardian
    /\ result.handoff = None

\* C6: resolve_weekday_rule takes the guardian of the earliest rule of the
\* list that matches the week.
C6_FirstMatchWins ==
    Done("resolve_weekday_rule") /\ args.rule.kind = "WeekdayRule" =>
        \A i \in Matching(args.rule, args.cw) :
            (\A j \in Matching(args.rule, args.cw) : i <= j) =>
                result = args.rule.modulo_rules[i].guardian

\* Rules (2, 0, guardian_1), (4, 0, guardian_2) in week 8: guardian_1
C6_Witness ==
    /\ Done("resolve_weekday_rule")
    /\ args.cw = 8
    /\ args.rule.kind = "WeekdayRule"
    /\ args.rule.modulo_rules
           = <<CalendarWeekModuloRule(2, 0, GUARDIAN_1), CalendarWeekModuloRule(4, 0, GUARDIAN_2)>>
    /\ args.rule.otherwise = GUARDIAN_2
    /\ result = GUARDIAN_1

\* C7: a bare guardian is returned unchanged; a conditional assignment leaves
\* by its otherwise exactly when no rule of the list matches the week, and
\* then returns the otherwise guardian.
C7_BareAndOtherwise ==
    Done("resolve_weekday_rule") =>
        /\ args.rule.kind = "Guardian" => result = args.rule.guardian
        /\ args.rule.kind = "WeekdayRule" =>
            /\ (trace = <<"rule.otherwise">>) = (Matching(args.rule, args.cw) = {})
            /\ Matching(args.rule, args.cw) = {} => result = args.rule.otherwise

\* A non-empty list none of whose rules matches, all naming the other guardian
C7_Witness ==
    /\ Done("resolve_weekday_rule")
    /\ args.rule.kind = "WeekdayRule"
    /\ Len(args.rule.modulo_rules) = 2
    /\ Matching(args.rule, args.cw) = {}
    /\ \A i \in 1..2 : args.rule.modulo_rules[i].guardian # args.rule.otherwise
    /\ result = args.rule.otherwise

\* C8: without a swap or holiday entry, Friday to Sunday take the odd-week
\* block when the ISO week is odd and the even-week block, through its modulo
\* rules, when it is even; Monday to Thursday take the weekday guardian.
C8_ParityBlocks ==
    Done("resolve_for_date") /\ ~Overridden(args.dt) =>
        ~result.raised /\ result.guardian = ExpectedGuardian(args.dt)

\* The Friday 2027-01-01, in week 53 of 2026: the odd-week block, which
\* differs from the even-week block
C8_Witness ==
    /\ Done("resolve_for_date")
    /\ args.dt = ymd2ord(2027, 1, 1)
    /\ result.calendar_week = 53
    /\ result.guardian = cfg.rules.weekends.odd_weeks.friday
    /\ cfg.rules.weekends.even_weeks.friday.kind = "Guardian"
    /\ cfg.rules.weekends.even_weeks.friday.guardian # result.guardian

\* The resolution of a date asked for on its own
Top(d) == resolve_for_date(d, cfg, TRUE)

\* The handoff of a date without its special handoff: the swap's own, none on
\* a holiday, the weekday location from Monday to Thursday, "after_school" on
\* a Friday that changes guardian, none on the other days
ExpectedBase(d) ==
    LET i == weekday(d)
    IN  IF SwapKeysAt(d) # {} THEN cfg.swaps[CHOOSE k \in SwapKeysAt(d) : TRUE].handoff
        ELSE IF HolidayKeysAt(d) # {} THEN None
        ELSE IF i <= 3
        THEN (IF cfg.handoff.weekdays.kind = "str" THEN cfg.handoff.weekdays.value
              ELSE cfg.handoff.weekdays.location)
        ELSE IF i = 4 /\ Top(d - 1).guardian # Top(d).guardian THEN AFTER_SCHOOL
        ELSE None

SpecialOf(d) == cfg.handoff.special_handoffs[Weekday[weekday(d) + 1]]

\* The conditions under which the special handoff of d's weekday shows
SpecialConditions(d) ==
    /\ ~Overridden(d)
    /\ Weekday[weekday(d) + 1] \in DOMAIN cfg.handoff.special_handoffs
    /\ Top(d).guardian = SpecialOf(d).from_guardian
    /\ SpecialOf(d).from_guardian # SpecialOf(d).to_guardian
    /\ Top(d + 1).guardian = SpecialOf(d).to_guardian

GeneratedText(special) ==
    special.from_guardian \o <<"_", "t", "o", "_">> \o special.to_guardian \o <<"_">>
        \o HandoffTime_format(special.time)

\* C9: when any condition of the special handoff fails, the handoff keeps its
\* base value; the special text shows only when all of them hold.
C9_SpecialOnlyIf ==
    Done("resolve_for_date") =>
        /\ ~SpecialConditions(args.dt) => result.handoff = ExpectedBase(args.dt)
        /\ result.handoff # ExpectedBase(args.dt) => SpecialConditions(args.dt)

\* A Sunday whose special handoff names one guardian twice, held by that
\* guardian like the Monday after it: no handoff
C9_Witness ==
    /\ Done("resolve_for_date")
    /\ args.check_handoff
    /\ ~Overridden(args.dt)
    /\ weekday(args.dt) = 6
    /\ "sunday" \in DOMAIN cfg.handoff.special_handoffs
    /\ SpecialOf(args.dt).from_guardian = SpecialOf(args.dt).to_guardian
    /\ result.guardian = SpecialOf(args.dt).from_guardian
    /\ Top(args.dt + 1).guardian = SpecialOf(args.dt).to_guardian
    /\ result.handoff = None

\* C10, as claimed: when the conditions hold and handoff checking is on, the
\* handoff is the description whenever one is supplied, and the generated
\* text otherwise.
C10_Original ==
    Done("resolve_for_date") /\ args.check_handoff /\ SpecialConditions(args.dt) =>
        result.handoff =
            IF SpecialOf(args.dt).description # None
            THEN SpecialOf(args.dt).description
            ELSE GeneratedText(SpecialOf(args.dt))

\* C10, amended: the handoff is the description when a non-empty one is
\* supplied, and the generated text when there is none or an empty one; the
\* base handoff does not survive.
C10_SpecialOverwrites ==
    Done("resolve_for_date") /\ args.check_handoff /\ SpecialConditions(args.dt) =>
        /\ result.handoff =
            IF SpecialOf(args.dt).description \notin {None, <<>>}
            THEN SpecialOf(args.dt).description
            ELSE GeneratedText(SpecialOf(args.dt))
        /\ result.handoff \notin {None, SCHOOL, AFTER_SCHOOL, DAYCARE}

\* A Thursday of guardian_2 before a Friday of guardian_1, with a described
\* special handoff: the description replaces "school"
C10_Witness ==
    /\ Done("resolve_for_date")
    /\ args.check_handoff
    /\ SpecialConditions(args.dt)
    /\ weekday(args.dt) = 3
    /\ ExpectedBase(args.dt) = SCHOOL
    /\ SpecialOf(args.dt).description = SUNDAY_DESCRIPTION
    /\ result.handoff = SUNDAY_DESCRIPTION

\* The text a special handoff shows
ExpectedSpecialText(special) ==
    IF special.description \notin {None, <<>>} THEN special.description
    ELSE GeneratedText(special)

\* A Friday without override held by the guardian of the Thursday before it
SameAsThursday(d) ==
    /\ weekday(d) = 4
    /\ ~Overridden(d)
    /\ Top(d - 1).guardian = Top(d).guardian

\* C11, as claimed: a Friday without swap or holiday entry whose guardian is
\* Thursday's resolved guardian has a null handoff.
C11_Original ==
    Done("resolve_for_date") /\ SameAsThursday(args.dt) => result.handoff = None

\* C11, amended: on such a Friday "after_school" is not set; the handoff is
\* null unless handoff checking is on and the special handoff of Friday
\* applies, and then it is the text of that special handoff.
C11_FridaySuppressed ==
    Done("resolve_for_date") /\ SameAsThursday(args.dt) =>
        result.handoff =
            IF args.check_handoff /\ SpecialConditions(args.dt)
            THEN ExpectedSpecialText(SpecialOf(args.dt))
            ELSE None

\* A Friday held by Thursday's guardian, with a special handoff on Friday
\* from that guardian that Saturday's guardian does not take up: null
C11_Witness ==
    /\ Done("resolve_for_date")
    /\ args.check_handoff
    /\ SameAsThursday(args.dt)
    /\ "friday" \in DOMAIN cfg.handoff.special_handoffs
    /\ SpecialOf(args.dt).from_guardian = result.guardian
    /\ SpecialOf(args.dt).to_guardian # result.guardian
    /\ Top(args.dt + 1).guardian = result.guardian
    /\ result.handoff = None

\* A date resolved by the rules, with handoff checking on, on which no
\* special handoff shows
PlainDay(d) == args.check_handoff /\ ~Overridden(d) /\ ~SpecialConditions(d)

\* C12, as claimed: on a date without swap or holiday entry, resolved with
\* handoff checking on, a handoff is reported exactly when the guardian of the
\* day before differs, on any weekday.
C12_Original ==
    Done("resolve_for_date") /\ PlainDay(args.dt) =>
        (result.handoff # None) = (Top(args.dt - 1).guardian # result.guardian)

\* C12, amended: the guardian of the day before decides the handoff on a
\* Friday only, which reports "after_school" exactly when it differs; Monday
\* to Thursday always report a handoff, Saturday and Sunday never.
C12_BaseHandoff ==
    Done("resolve_for_date") /\ PlainDay(args.dt) =>
        /\ weekday(args.dt) = 4 =>
            /\ result.handoff \in {None, AFTER_SCHOOL}
            /\ (result.handoff = AFTER_SCHOOL)
                   = (Top(args.dt - 1).guardian # result.guardian)
        /\ weekday(args.dt) <= 3 => result.handoff # None
        /\ weekday(args.dt) >= 5 => result.handoff = None

\* A Friday taken over from Thursday's guardian, with a special handoff on
\* Friday that does not apply: "after_school"
C12_Witness ==
    /\ Done("resolve_for_date")
    /\ PlainDay(args.dt)
    /\ weekday(args.dt) = 4
    /\ "friday" \in DOMAIN cfg.handoff.special_handoffs
    /\ Top(args.dt - 1).guardian = GUARDIAN_2
    /\ result.guardian = GUARDIAN_1
    /\ result.handoff = AFTER_SCHOOL

\* The configured weekday handoff: the literal, or the location of the object
WeekdayLocation ==
    IF cfg.handoff.weekdays.kind = "WeekdayHandoffs" THEN cfg.handoff.weekdays.location
    ELSE cfg.handoff.weekdays.value

\* C13: from Monday to Thursday, without swap or holiday entry and with no
\* special handoff applying, the handoff is the configured weekday location,
\* whoever held the day before.
C13_WeekdayLocation ==
    Done("resolve_for_date") /\ weekday(args.dt) <= 3 /\ ~Overridden(args.dt)
            /\ ~(args.check_handoff /\ SpecialConditions(args.dt)) =>
        result.handoff = WeekdayLocation

\* A Monday held by Sunday's guardian, in a configuration whose weekday
\* handoff is an object with the location "daycare"
C13_Witness ==
    /\ Done("resolve_for_date")
    /\ args.check_handoff
    /\ weekday(args.dt) = 0
    /\ ~Overridden(args.dt)
    /\ cfg.handoff.weekdays.kind = "WeekdayHandoffs"
    /\ Top(args.dt - 1).guardian = result.guardian
    /\ result.handoff = DAYCARE

MondayOf(d) == d - ((d - 1) % 7)

DayNames == <<"monday", "tuesday", "wednesday", "thursday", "friday", "saturday", "sunday">>

DayName(d) == DayNames[((d - 1) % 7) + 1]

BaseFields(r) ==
    [date |-> r.date, calendar_week |-> r.calendar_week, guardian |-> r.guardian,
     handoff |-> r.handoff, is_swap |-> r.is_swap, swap_note |-> r.swap_note]

\* C17: resolve_range returns weeks * 7 records, none when weeks <= 0; record
\* i is the resolution of start + i days, so the dates run on day by day from
\* start itself, and it carries the weekday name of its date, its iso_date
\* and the calendar_week_system of the configuration.
C17_Range ==
    Done("resolve_range") =>
        /\ ~result.raised
        /\ Len(result.value) = IF args.weeks <= 0 THEN 0 ELSE args.weeks * 7
        /\ \A i \in 1..Len(result.value) :
            LET r == result.value[i]
                d == args.start + (i - 1)
            IN  /\ BaseFields(r) = BaseFields(Top(d))
                /\ KeyDate(r.date) = d
                /\ KeyDate(r.iso_date) = d
                /\ r.iso_date = r.date
                /\ r.weekday = DayName(d)
                /\ r.calendar_week_system = cfg.calendar_week_system

\* Two weeks from a Wednesday: fourteen records, the first a Wednesday, one of
\* them a swap
C17_Witness ==
    /\ Done("resolve_range")
    /\ args.weeks = 2
    /\ (args.start - 1) % 7 = 2
    /\ ~result.raised
    /\ Len(result.value) = 14
    /\ result.value[1].weekday = "wednesday"
    /\ result.value[14].weekday = "tuesday"
    /\ \E i \in 1..14 : result.value[i].is_swap

\* The Thursday of the Monday-to-Sunday week of a date
ThursdayOf(d) == MondayOf(d) + 3

\* The calendar year a date lies in
CalendarYear(d) == CHOOSE y \in 2023..2029 : ymd2ord(y, 1, 1) <= d /\ d <= ymd2ord(y, 12, 31)

\* ISO 8601: a week belongs to the year its Thursday lies in, and its number
\* counts the Thursdays of that year up to its own
IsoWeekNumber(d) ==
    LET t == ThursdayOf(d)
    IN  Cardinality({n \in ymd2ord(CalendarYear(t), 1, 1)..t : (n - 1) % 7 = 3})

\* C18: iso_week is the ISO 8601 week number: within 1..53, the same on the
\* seven days of a Monday-to-Sunday week, week 1 being the week of the year's
\* first Thursday; 2025-12-29 is in week 1, 2025-02-09 in week 6 and
\* 2025-02-23 in week 8.
C18_IsoWeek ==
    Done("iso_week") =>
        /\ result.value \in 1..53
        /\ result.value = IsoWeekNumber(args.dt)
        /\ \A e \in MondayOf(args.dt)..(MondayOf(args.dt) + 6) : iso_week(e) = result.value
        /\ args.dt = ymd2ord(2025, 12, 29) => result.value = 1
        /\ args.dt = ymd2ord(2025, 2, 9) => result.value = 6
        /\ args.dt = ymd2ord(2025, 2, 23) => result.value = 8

\* 2027-01-03, a Sunday of January in week 53 of the ISO year before
C18_Witness ==
    /\ Done("iso_week")
    /\ args.dt = ymd2ord(2027, 1, 3)
    /\ result.value = 53

\* The modulo rules of the even-week slots of a configuration or of raw data
SlotRules(even_weeks) ==
    UNION {{even_weeks[d].modulo_rules[i] : i \in 1..Len(even_weeks[d].modulo_rules)} :
              d \in {x \in DOMAIN even_weeks : even_weeks[x].kind = "WeekdayRule"}}

WithinBound(r) == r.modulo >= 2 /\ 0 <= r.remainder /\ r.remainder < r.modulo

\* C19: construction returns a configuration only if every modulo rule of the
\* data, in any slot and at any place of its list, has modulo >= 2 and
\* 0 <= remainder < modulo; so every rule of a configuration that reaches
\* resolve_for_date is within the bound.
C19_ModuloBound ==
    /\ pc = "constructed" => \A r \in SlotRules(args.even_weeks) : WithinBound(r)
    /\ pc = "rejected" /\ DOMAIN args.holidays = {} /\ DOMAIN args.swaps = {} =>
        \E r \in SlotRules(args.even_weeks) : ~WithinBound(r)
    /\ pc \in {"constructed", "call", "done"} =>
        \A r \in SlotRules(cfg.rules.weekends.even_weeks) : WithinBound(r)

\* Data rejected for the second rule of Sunday's list alone, whose remainder
\* equals its modulo
C19_Witness ==
    /\ pc = "rejected"
    /\ result = [raised |-> TRUE, error |-> "ValidationError"]
    /\ cfg = None
    /\ args.even_weeks.friday.kind = "Guardian"
    /\ args.even_weeks.sunday.kind = "WeekdayRule"
    /\ Len(args.even_weeks.sunday.modulo_rules) = 2
    /\ WithinBound(args.even_weeks.sunday.modulo_rules[1])
    /\ args.even_weeks.sunday.modulo_rules[2].modulo = 3
    /\ args.even_weeks.sunday.modulo_rules[2].remainder = 3

IsDigitChar(ch) == ch \in {"0", "1", "2", "3", "4", "5", "6", "7", "8", "9"}

\* A key of the form YYYY-MM-DD that names a day of the calendar
WellFormedKey(k) ==
    /\ Len(k) = 10
    /\ \A i \in {1, 2, 3, 4, 6, 7, 9, 10} : IsDigitChar(k[i])
    /\ k[5] = "-"
    /\ k[8] = "-"
    /\ LET y == DigitValue(k[1]) * 1000 + DigitValue(k[2]) * 100
                    + DigitValue(k[3]) * 10 + DigitValue(k[4])
           m == DigitValue(k[6]) * 10 + DigitValue(k[7])
           d == DigitValue(k[9]) * 10 + DigitValue(k[10])
       IN  y >= 1 /\ m \in 1..12 /\ d >= 1 /\ d <= days_in_month(y, m)

\* C20: data with a holiday or swap key that is not a valid YYYY-MM-DD date
\* yields no configuration, so every key of a configuration that was
\* constructed, and of one that reaches resolve_for_date, is such a date.
C20_KeysRejected ==
    /\ pc = "constructed" =>
        \A k \in DOMAIN args.holidays \cup DOMAIN args.swaps : WellFormedKey(k)
    /\ pc \in {"constructed", "call", "done"} =>
        \A k \in DOMAIN cfg.holidays \cup DOMAIN cfg.swaps : WellFormedKey(k)

---------------------------------------------------------------------------
(* HandoffTime.format *)

\* The number a run of digit characters writes
RECURSIVE Number(_)
Number(digits) ==
    IF digits = <<>> THEN 0
    ELSE Number(SubSeq(digits, 1, Len(digits) - 1)) * 10 + DigitValue(digits[Len(digits)])

AllDigits(text) == \A i \in 1..Len(text) : IsDigitChar(text[i])

\* text reads HH:MM for the hour and minute of t, both on two digits
IsClock24(text, t) ==
    /\ Len(text) = 5
    /\ text[3] = ":"
    /\ AllDigits(SubSeq(text, 1, 2)) /\ Number(SubSeq(text, 1, 2)) = t.hour
    /\ AllDigits(SubSeq(text, 4, 5)) /\ Number(SubSeq(text, 4, 5)) = t.minute

\* The hour of the 12-hour clock: 12 for hours 0 and 12
ClockHour(hour) == CHOOSE h \in 1..12 : (h - hour) % 12 = 0

\* text reads H[:MM]AM or H[:MM]PM for the hour and minute of t: the hour
\* without a leading zero, the minute only when it is not zero
IsClock12(text, t) ==
    LET hour_len == IF ClockHour(t.hour) < 10 THEN 1 ELSE 2
        hour_text == SubSeq(text, 1, hour_len)
        minute_len == IF t.minute = 0 THEN 0 ELSE 3
        minute_text == SubSeq(text, hour_len + 1, hour_len + minute_len)
        suffix == SubSeq(text, hour_len + minute_len + 1, Len(text))
    IN  /\ Len(text) = hour_len + minute_len + 2
        /\ AllDigits(hour_text) /\ Number(hour_text) = ClockHour(t.hour)
        /\ t.minute # 0 =>
               /\ minute_text[1] = ":"
               /\ AllDigits(SubSeq(minute_text, 2, 3))
               /\ Number(SubSeq(minute_text, 2, 3)) = t.minute
        /\ suffix = IF t.hour < 12 THEN <<"A", "M">> ELSE <<"P", "M">>

---------------------------------------------------------------------------
(* _parse_handoff_time on generated handoff texts *)

\* C28: for every HandoffTime t, _parse_handoff_time of the handoff text the
\* resolver generates for a special handoff without description,
\* '<from>_to_<to>_' followed by t.format(), returns t.hour + t.minute / 60,
\* a value from 0 to 24 (here in sixtieths of an hour).
C28_RoundTrip ==
    Done("_parse_handoff_time") /\ args.special.description = None =>
        LET t == args.special.time
        IN  /\ ~result.raised
            /\ result.value.kind = "float"
            /\ result.value.sixtieths = t.hour * 60 + t.minute
            /\ result.value.sixtieths \in 0..(24 * 60)

---------------------------------------------------------------------------
(* The generic schedule *)

IsGenericSchedule(c) ==
    /\ c.rules.weekends.even_weeks["sunday"] =
           WeekdayRule(<<CalendarWeekModuloRule(4, 0, GUARDIAN_2)>>, GUARDIAN_1)
    /\ c.rules.weekdays["monday"] = GUARDIAN_1
    /\ DOMAIN c.handoff.special_handoffs = {"sunday"}
    /\ c.handoff.special_handoffs["sunday"].from_guardian = GUARDIAN_2
    /\ c.handoff.special_handoffs["sunday"].to_guardian = GUARDIAN_1
    /\ c.handoff.special_handoffs["sunday"].description = SUNDAY_DESCRIPTION
    /\ DOMAIN c.holidays = {} /\ DOMAIN c.swaps = {}

\* C22: with the generic schedule and no overrides, a Sunday of an even ISO
\* week resolves to guardian_2 with handoff 'guardian_2_to_guardian_1_by_1pm'
\* when the week number is divisible by 4, and to guardian_1 with no handoff
\* when it is not; is_swap is false in both cases.
C22_GenericSundays ==
    /\ Done("resolve_for_date") /\ IsGenericSchedule(cfg) /\ args.check_handoff
    /\ DayName(args.dt) = "sunday" /\ IsoWeekNumber(args.dt) % 2 = 0
    =>  /\ ~result.raised
        /\ result.is_swap = FALSE
        /\ IF IsoWeekNumber(args.dt) % 4 = 0
           THEN result.guardian = GUARDIAN_2 /\ result.handoff = SUNDAY_DESCRIPTION
           ELSE result.guardian = GUARDIAN_1 /\ result.handoff = None

\* Sunday 2025-12-28, week 52, whose Monday lies in week 1 of 2026
C22_Witness ==
    /\ Done("resolve_for_date") /\ IsGenericSchedule(cfg) /\ args.check_handoff
    /\ args.dt = ymd2ord(2025, 12, 28)
    /\ result.calendar_week = 52
    /\ result.guardian = GUARDIAN_2
    /\ result.handoff = SUNDAY_DESCRIPTION

---------------------------------------------------------------------------
(* Neighbouring days with overrides *)

\* The guardian the swap entry of d names, or else its holiday entry
OverrideGuardian(d) ==
    IF SwapKeysAt(d) # {} THEN cfg.swaps[CHOOSE k \in SwapKeysAt(d) : TRUE].guardian
    ELSE cfg.holidays[CHOOSE k \in HolidayKeysAt(d) : TRUE]

\* C24: the neighbouring days count with their resolved guardians. On a
\* Friday whose Thursday has a swap or holiday entry, 'after_school' is set
\* exactly when the entry's guardian differs from Friday's; on a day whose
\* special handoff starts from its guardian and whose next day has an entry,
\* the special handoff shows exactly when the entry's guardian is its
\* to_guardian.
C24_NeighbourOverrides ==
    Done("resolve_for_date") /\ ~Overridden(args.dt) =>
        LET d == args.dt
            day == DayName(d)
            specials == cfg.handoff.special_handoffs
        IN  /\ ~result.raised
            /\ day = "friday" /\ Overridden(d - 1) /\ day \notin DOMAIN specials =>
                   result.handoff =
                       IF OverrideGuardian(d - 1) # result.guardian THEN AFTER_SCHOOL ELSE None
            /\ /\ args.check_handoff /\ day \in DOMAIN specials /\ Overridden(d + 1)
               /\ result.guardian = specials[day].from_guardian
               /\ specials[day].from_guardian # specials[day].to_guardian
               =>  (result.handoff = ExpectedSpecialText(specials[day])
                       <=> OverrideGuardian(d + 1) = specials[day].to_guardian)

\* Friday 2025-02-14 belongs to guardian_1 and the rules give its Thursday to
\* guardian_2, but the Thursday is a holiday of guardian_1: no handoff
C24_Witness ==
    /\ Done("resolve_for_date")
    /\ args.dt = ymd2ord(2025, 2, 14)
    /\ ~Overridden(args.dt)
    /\ HolidayKeysAt(args.dt - 1) # {} /\ SwapKeysAt(args.dt - 1) = {}
    /\ OverrideGuardian(args.dt - 1) = GUARDIAN_1
    /\ cfg.rules.weekdays["thursday"] = GUARDIAN_2
    /\ result.guardian = GUARDIAN_1
    /\ result.handoff = None

\* Thursday 2025-02-20 with a special handoff to guardian_1: the rules give
\* Friday to guardian_2, a swap gives it to guardian_1, and the handoff shows
C24_WitnessSpecial ==
    /\ Done("resolve_for_date") /\ args.check_handoff
    /\ args.dt = ymd2ord(2025, 2, 20)
    /\ ~Overridden(args.dt)
    /\ SwapKeysAt(args.dt + 1) # {}
    /\ OverrideGuardian(args.dt + 1) = GUARDIAN_1
    /\ "thursday" \in DOMAIN cfg.handoff.special_handoffs
    /\ result.guardian = GUARDIAN_2
    /\ result.handoff = ExpectedSpecialText(cfg.handoff.special_handoffs["thursday"])

---------------------------------------------------------------------------
(* The handoff-checking flag *)

\* C25: resolve_for_date with _check_handoff=False returns the same date,
\* calendar_week, guardian, is_swap and swap_note as with _check_handoff=True:
\* the flag affects the handoff only.
C25_FlagOnlyHandoff ==
    Done("resolve_for_date") /\ "earlier" \in DOMAIN args =>
        /\ ~result.raised /\ ~args.earlier.raised
        /\ result.date = args.earlier.date
        /\ result.calendar_week = args.earlier.calendar_week
        /\ result.guardian = args.earlier.guardian
        /\ result.is_swap = args.earlier.is_swap
        /\ result.swap_note = args.earlier.swap_note

\* A day whose special handoff shows with checking on and not with checking
\* off: the two records differ in handoff alone
C25_Witness ==
    /\ Done("resolve_for_date") /\ "earlier" \in DOMAIN args
    /\ ~args.check_handoff
    /\ result.handoff # args.earlier.handoff
    /\ result.guardian = args.earlier.guardian

\* A day with a swap entry resolved both ways
C25_WitnessSwap ==
    /\ Done("resolve_for_date") /\ "earlier" \in DOMAIN args
    /\ result.is_swap /\ args.earlier.is_swap
    /\ result.swap_note = SWAP_NOTE

---------------------------------------------------------------------------
(* Weeks seven days apart *)

\* The records of a range that have a record seven days later
WeekApart == 1..(Len(result.value) - 7)

NoOverrides == DOMAIN cfg.swaps = {} /\ DOMAIN cfg.holidays = {}

\* The guardian the weekend block of a record's week parity gives its weekday
BlockGuardian(r) ==
    IF r.calendar_week % 2 = 1 THEN cfg.rules.weekends.odd_weeks[r.weekday]
    ELSE ExpectedAssignment(cfg.rules.weekends.even_weeks[r.weekday], r.calendar_week)

\* C26, as claimed: the ISO weeks of any two dates seven days apart have
\* opposite parity, across year boundaries too.
C26_Original ==
    Done("resolve_range") /\ ~result.raised =>
        \A i \in WeekApart :
            result.value[i].calendar_week % 2 # result.value[i + 7].calendar_week % 2

\* C26: the ISO weeks of two dates seven days apart have opposite parity
\* except when the first lies in a week 53: the week after it is week 1, and
\* both are odd. Every weekend day is resolved from the block of its own
\* week's parity, so weekends alternate between the odd-week and the
\* even-week block from one week to the next, except that the odd-week block
\* serves two weekends in a row at the end of a year of 53 weeks.
C26_Alternation ==
    Done("resolve_range") /\ ~result.raised /\ NoOverrides =>
        \A i \in WeekApart :
            LET a == result.value[i]
                b == result.value[i + 7]
            IN  /\ a.calendar_week % 2 # b.calendar_week % 2 <=> a.calendar_week # 53
                /\ a.calendar_week = 53 => b.calendar_week = 1
                /\ a.weekday \in {"friday", "saturday", "sunday"} =>
                       /\ b.weekday = a.weekday
                       /\ a.guardian = BlockGuardian(a)
                       /\ b.guardian = BlockGuardian(b)

\* Friday 2027-01-01 lies in week 53 of 2026 and Friday 2027-01-08 in week 1
\* of 2027: both come from the odd-week block, which differs from the
\* even-week block on Fridays
C26_Witness ==
    /\ Done("resolve_range") /\ ~result.raised /\ NoOverrides
    /\ args.start = ymd2ord(2027, 1, 1) /\ args.weeks = 2
    /\ result.value[1].calendar_week = 53 /\ result.value[8].calendar_week = 1
    /\ result.value[1].weekday = "friday"
    /\ result.value[1].guardian = cfg.rules.weekends.odd_weeks["friday"]
    /\ result.value[8].guardian = cfg.rules.weekends.odd_weeks["friday"]
    /\ cfg.rules.weekends.even_weeks["friday"] = Bare(GUARDIAN_2)
    /\ cfg.rules.weekends.odd_weeks["friday"] = GUARDIAN_1

---------------------------------------------------------------------------
(* Accepted holiday keys *)

\* The calendar date a key of three numbers separated by '-' denotes
DenotedDate(k) ==
    LET dashes == {i \in 1..Len(k) : k[i] = "-"}
        first == CHOOSE i \in dashes : \A j \in dashes : i <= j
        last == CHOOSE i \in dashes : \A j \in dashes : j <= i
    IN  ymd2ord(Number(SubSeq(k, 1, first - 1)),
                Number(SubSeq(k, first + 1, last - 1)),
                Number(SubSeq(k, last + 1, Len(k))))

\* C27: every holiday key of a configuration that validation accepted takes
\* effect: resolving the date the key denotes, with no swap on that date,
\* returns the guardian configured under the key.
C27_AcceptedKeyTakesEffect ==
    Done("resolve_for_date") =>
        \A k \in DOMAIN cfg.holidays :
            /\ DenotedDate(k) = args.dt
            /\ \A s \in DOMAIN cfg.swaps : DenotedDate(s) # args.dt
            =>  ~result.raised /\ result.guardian = cfg.holidays[k]

---------------------------------------------------------------------------
(* The grid of the rendered image *)

\* C29: for the records of resolve_range(start, weeks), any start date and
\* either layout, _build_index gives every record a cell (row, weekday) of
\* its own with 0 <= row < weeks, so every resolved day is drawn in one of
\* the rendered rows.
C29_EveryDayDrawn ==
    Done("_build_index") =>
        LET record_index == result.value.record_index
        IN  /\ Cardinality(DOMAIN record_index) = Len(args.records)
            /\ \A i \in 1..Len(args.records) :
                   \E cell \in DOMAIN record_index :
                       /\ record_index[cell] = args.records[i]
                       /\ cell[1] >= 0 /\ cell[1] < args.weeks
                       /\ cell \in result.value.drawn

---------------------------------------------------------------------------
(* write_config *)

\* The file system the call just made started on
Before == trace[Len(trace)]

\* What a path holds in a file system
Holds(fs, path) == IF path \in DOMAIN fs THEN fs[path] ELSE [kind |-> "absent"]

\* C30: when the outfile exists and overwrite is false, write_config raises
\* FileExistsError and leaves the file as it was; what the outfile holds
\* changes only when it did not exist before the call or overwrite is true.
C30_NoClobber ==
    Done("write_config") =>
        /\ args.outfile \in DOMAIN Before /\ ~args.overwrite =>
               /\ result.raised /\ result.error = "FileExistsError"
               /\ Holds(files, args.outfile) = Holds(Before, args.outfile)
        /\ Holds(files, args.outfile) # Holds(Before, args.outfile) =>
               args.outfile \notin DOMAIN Before \/ args.overwrite

\* A second run without overwrite on the file the first run wrote, with
\* another guardian name: refused, the first text stays
C30_Witness ==
    /\ Done("write_config") /\ Len(trace) = 2
    /\ ~args.overwrite /\ args.guardian_1 = "Ana" /\ args.template = "generic"
    /\ args.outfile \in DOMAIN Before
    /\ Before[args.outfile].kind = "file"
    /\ Before[args.outfile].text # EXISTING_TEXT
    /\ Before[args.outfile].text.parties.guardian_1 = "Jane"
    /\ result.raised /\ result.error = "FileExistsError"
    /\ files = Before

---------------------------------------------------------------------------
(* The configuration and the returned dicts *)

\* The keys of the dict resolve_for_date returns
ResolutionKeys == {"date", "calendar_week", "guardian", "handoff", "is_swap", "swap_note"}

\* The dicts of a call in trace, as a set
RecordsOf(call) ==
    IF call.result.raised THEN {}
    ELSE IF call.op = "resolve_for_date" THEN {call.records}
    ELSE {call.records[k] : k \in DOMAIN call.records}

AddressesOf(call) ==
    IF call.result.raised THEN {} ELSE Addresses(call.op, call.result.value)

\* C23: the calls leave the configuration as it was, and the dicts of a
\* later call are new objects: none is a dict handed out before, and a date
\* resolved by both calls has the same resolution in both, whatever the
\* caller assigned on the dicts of the first; the same call made again
\* returns the same records.
C23_FreshRecords ==
    Len(trace) = 2 /\ pc = "done" =>
        LET earlier == trace[1]
            later == trace[2]
        IN  /\ cfg = earlier.cfg /\ cfg = later.cfg
            /\ AddressesOf(earlier) \cap AddressesOf(later) = {}
            /\ \A r1 \in RecordsOf(earlier), r2 \in RecordsOf(later) :
                   r1.date = r2.date =>
                       \A k \in ResolutionKeys : r1[k] = r2[k]
            /\ (earlier.op = later.op /\ earlier.args = later.args) =>
                   earlier.records = later.records
            /\ ~later.result.raised => later.records = Contents(heap, op, result.value)

\* resolve_range, then the caller puts a name over the guardian of Friday's
\* dict, then resolve_for_date of that Friday: the key again, and none of
\* the keys resolve_range added
C23_Witness ==
    /\ Len(trace) = 2 /\ pc = "done"
    /\ trace[1].op = "resolve_range" /\ trace[1].args.start = FreshMonday
    /\ heap[trace[1].result.value[5]].guardian = <<"J", "a", "n", "e">>
    /\ "weekday" \in DOMAIN heap[trace[1].result.value[5]]
    /\ op = "resolve_for_date" /\ args.dt = FreshMonday + 4
    /\ ~result.raised
    /\ heap[result.value].guardian \in Guardian
    /\ "weekday" \notin DOMAIN heap[result.value]

====
